---- MODULE Spec2Model ----
(***************************************************************************)
(* Payment gateway core: idempotent payment creation, inbound callback    *)
(* processing, refunds and the outbound webhook delivery worker, modelled  *)
(* over a relational store with unique constraints, check constraints,    *)
(* row locks and READ COMMITTED transactions.                              *)
(*                                                                         *)
(* Tables are functions from the ids of the stored rows to rows.  A       *)
(* nullable column holds NULL (the empty set) or a singleton set.  Every   *)
(* request handler owns one database session; what it has flushed but not  *)
(* committed lives in its own record until the commit step.                *)
(***************************************************************************)
EXTENDS Integers, FiniteSets, Sequences, TLC

(* ---------------------------------------------------------------- bounds *)

\* The clock runs from 1 to MaxTime.
MaxTime == 2

\* Settings.worker_max_retries as deployed here (the default is 10).
worker_max_retries == 2

\* Refund rows stored at most.
MaxRefunds == 2

(* ------------------------------------------------------------- constants *)

NULL == {}

Some(x) == {x}

\* The value of a non-null column.
Val(x) == CHOOSE v \in x : TRUE

\* gateway.core.constants
PaymentStatus == {"pending", "succeeded", "failed", "canceled"}

CallbackStatus == {"received", "processing", "processed", "failed"}

DeliveryStatus == {"pending", "processing", "succeeded", "failed", "dead"}

RefundStatus == {"pending", "succeeded", "failed", "canceled"}

\* Terminal payment states of the specification's glossary.
TerminalPayment == {"succeeded", "failed", "canceled"}

\* Merchant tenants; a1 has a default notify_url, a2 has none.
Apps == {"a1", "a2"}

\* A URL is the sequence of its pieces, "/" a piece of its own where the
\* model needs it: "https://m.example/hook/" is <<"https://m.example/hook", "/">>.
AppNotifyUrl(a) == IF a = "a1" THEN Some(<<"https://m.example/hook">>) ELSE NULL

\* Python's `not notify_url`: None or the empty string.
Empty(notify_url) == notify_url = NULL \/ notify_url = Some(<< >>)

VARIABLES
    now,         \* the clock (datetime.now(UTC)), whole seconds
    payments,    \* committed rows of table payments, by id
    callbacks,   \* committed rows of table callbacks, by id
    deliveries,  \* committed rows of table webhook_deliveries, by id
    refunds,     \* committed rows of table refunds, by id
    cp,          \* POST /v1/payments handlers
    cb,          \* POST /v1/callbacks/{provider} handlers
    cx,          \* POST /v1/payments/cancel handlers
    rf,          \* POST /v1/refunds and /v1/refunds/{id}/sync handlers
    wk,          \* delivery workers
    hist         \* history: the events that have changed a Payment's status

vars == <<now, payments, callbacks, deliveries, refunds, cp, cb, cx, rf, wk,
          hist>>

(* ------------------------------------------------------------ the store *)

\* ORM unit of work: an UPDATE carries only the columns whose in-memory value
\* differs from the value the session loaded.
FlushRow(dbrow, loaded, mem) ==
    [f \in DOMAIN dbrow |-> IF mem[f] # loaded[f] THEN mem[f] ELSE dbrow[f]]

\* The clock advances.
Tick ==
    /\ now < MaxTime
    /\ now' = now + 1
    /\ UNCHANGED <<payments, callbacks, deliveries, refunds, cp, cb, cx, rf,
                   wk, hist>>

(* ------------------------------------------------------------- payments *)

\* Mutant: the unique key also includes the provider.
uq_payments_with_provider(r1, r2) ==
    /\ r1.app_id = r2.app_id
    /\ r1.merchant_order_no = r2.merchant_order_no
    /\ r1.provider = r2.provider

\* UniqueConstraint("app_id", "merchant_order_no"): two rows collide.
uq_payments_app_merchant_order_no(r1, r2) ==
    /\ r1.app_id = r2.app_id
    /\ r1.merchant_order_no = r2.merchant_order_no

\* CheckConstraint("amount > 0").
ck_payments_amount_positive(r) == r.amount > 0

\* Mutant: no check constraint couples paid_at with the status.
ck_payments_paid_at_unchecked(r) == TRUE

\* CheckConstraint: status = succeeded exactly when paid_at is not null.
ck_payments_paid_at_matches_status(r) ==
    \/ (r.status = "succeeded" /\ r.paid_at # NULL)
    \/ (r.status # "succeeded" /\ r.paid_at = NULL)

PaymentRowOk(r) ==
    /\ ck_payments_amount_positive(r)
    /\ ck_payments_paid_at_matches_status(r)

\* request_total_amount = unit_amount * quantity
TotalAmount(req) == req.unit_amount * req.quantity

\* The Payment(...) constructor call of create_or_get_payment.
NewPayment(req) ==
    [app_id            |-> req.app,
     merchant_order_no |-> req.merchant_order_no,
     provider          |-> req.provider,
     amount            |-> TotalAmount(req),
     currency          |-> req.currency,
     status            |-> "pending",
     notify_url        |-> IF ~ Empty(req.notify_url) THEN req.notify_url
                           ELSE AppNotifyUrl(req.app),
     provider_txn_id   |-> NULL,
     paid_at           |-> NULL]

\* Mutant: the stored total is compared with the unit price.
ParamsMismatchUnitAmount(existing, req) ==
    \/ existing.amount # req.unit_amount
    \/ existing.currency # req.currency
    \/ existing.provider # req.provider

\* The idempotency check of create_or_get_payment on an existing row.
ParamsMismatch(existing, req) ==
    \/ existing.amount # TotalAmount(req)
    \/ existing.currency # req.currency
    \/ existing.provider # req.provider

\* Rows stored for the request's (app, merchant_order_no).
ExistingPayments(req) ==
    {p \in DOMAIN payments :
        /\ payments[p].app_id = req.app
        /\ payments[p].merchant_order_no = req.merchant_order_no}

NoReq ==
    [app |-> "none", merchant_order_no |-> "none", provider |-> "none",
     unit_amount |-> 0, quantity |-> 0, currency |-> "none", notify_url |-> NULL]

CpIdle ==
    [pc |-> "idle", req |-> NoReq, payment_id |-> NULL, is_new |-> FALSE,
     error |-> "none"]

\* Handlers that hold a flushed, uncommitted Payment insert.
CpHolding(h) == cp[h].pc = "provider"

\* POST /v1/payments up to session.add(payment): the lookup by
\* (app_id, merchant_order_no) and the idempotency check.
create_or_get_payment_select(h, req) ==
    /\ cp[h].pc = "idle"
    /\ LET found == ExistingPayments(req) IN
       cp' = [cp EXCEPT ![h] =
           IF Cardinality(found) > 1
           THEN [CpIdle EXCEPT !.pc = "done", !.req = req,
                               !.error = "MultipleResultsFound"]
           ELSE IF found # {}
           THEN LET p == CHOOSE p \in found : TRUE IN
                IF ParamsMismatch(payments[p], req)
                THEN [CpIdle EXCEPT !.pc = "done", !.req = req,
                                    !.error = "Conflict4091"]
                ELSE [CpIdle EXCEPT !.pc = "done", !.req = req,
                                    !.payment_id = Some(p)]
           ELSE [CpIdle EXCEPT !.pc = "flush", !.req = req]]
    /\ UNCHANGED <<now, payments, callbacks, deliveries, refunds, cb, cx, rf,
                   wk, hist>>

\* session.flush() of the new Payment: the INSERT waits while another open
\* transaction holds an insert of the same key, and fails on a committed one.
create_or_get_payment_flush(h) ==
    /\ cp[h].pc = "flush"
    /\ LET row == NewPayment(cp[h].req) IN
       /\ ~ \E h2 \in DOMAIN cp \ {h} :
              /\ CpHolding(h2)
              /\ uq_payments_app_merchant_order_no(row, NewPayment(cp[h2].req))
       /\ IF \/ \E p \in DOMAIN payments :
                   uq_payments_app_merchant_order_no(row, payments[p])
             \/ ~ PaymentRowOk(row)
          THEN \* IntegrityError: rollback, ConflictException 4092
               cp' = [cp EXCEPT ![h].pc = "done", ![h].error = "Conflict4092"]
          ELSE cp' = [cp EXCEPT ![h].pc = "provider", ![h].is_new = TRUE,
                                ![h].payment_id = Some(h)]
    /\ UNCHANGED <<now, payments, callbacks, deliveries, refunds, cb, cx, rf,
                   wk, hist>>

\* The adapter's create_payment answered: provider_txn_id is stored when
\* returned, and the session commits.
create_payment_provider_ok(h, txn) ==
    /\ cp[h].pc = "provider"
    /\ payments' = payments @@
           (h :> [NewPayment(cp[h].req) EXCEPT !.provider_txn_id = txn])
    /\ cp' = [cp EXCEPT ![h].pc = "done"]
    /\ UNCHANGED <<now, callbacks, deliveries, refunds, cb, cx, rf, wk, hist>>

\* Mutant: the Payment is committed before the adapter is called, and stays
\* when the adapter raises.
create_payment_provider_raises_commits(h) ==
    /\ cp[h].pc = "provider"
    /\ payments' = payments @@ (h :> NewPayment(cp[h].req))
    /\ cp' = [cp EXCEPT ![h].pc = "done", ![h].error = "ProviderError"]
    /\ UNCHANGED <<now, callbacks, deliveries, refunds, cb, cx, rf, wk, hist>>

\* The adapter's create_payment raised: get_session rolls the insert back.
create_payment_provider_raises(h) ==
    /\ cp[h].pc = "provider"
    /\ cp' = [cp EXCEPT ![h].pc = "done", ![h].error = "ProviderError"]
    /\ UNCHANGED <<now, payments, callbacks, deliveries, refunds, cb, cx, rf,
                   wk, hist>>

(* ------------------------------------------------------------ callbacks *)

\* A fresh uuid4: an id no stored row and no open transaction uses.
FreshId(used) == CHOOSE n \in 1..(Cardinality(used) + 1) : n \notin used

\* UniqueConstraint("provider", "provider_event_id").
uq_callbacks_provider_provider_event_id(r1, r2) ==
    /\ r1.provider = r2.provider
    /\ r1.provider_event_id = r2.provider_event_id

NoEvent ==
    [provider |-> "none", provider_event_id |-> "none", provider_txn_id |-> NULL,
     merchant_order_no |-> NULL, outcome |-> "none", provider_refund_id |-> NULL]

\* The Callback(...) constructor call of _upsert_callback.
NewCallback(ev) ==
    [provider          |-> ev.provider,
     provider_event_id |-> ev.provider_event_id,
     provider_txn_id   |-> ev.provider_txn_id,
     payment_id        |-> NULL,
     payload           |-> ev,
     status            |-> "processing",
     processed_at      |-> NULL]

NoCallback == [NewCallback(NoEvent) EXCEPT !.status = "none"]

NoPayment ==
    [app_id |-> "none", merchant_order_no |-> "none", provider |-> "none",
     amount |-> 0, currency |-> "none", status |-> "none", notify_url |-> NULL,
     provider_txn_id |-> NULL, paid_at |-> NULL]

NoDelivery ==
    [app_id |-> "none", payment_id |-> NULL, event_id |-> <<"none", 0, "none">>,
     event_type |-> <<"none", "none">>, notify_url |-> NULL, status |-> "none",
     attempt_count |-> 0, next_attempt_at |-> NULL, last_attempt_at |-> NULL,
     last_http_status |-> NULL, last_error |-> NULL, delivered_at |-> NULL,
     created_at |-> NULL]

NoRefund ==
    [payment_id |-> NULL, refund_amount |-> 0, status |-> "none",
     provider |-> "none", provider_refund_id |-> NULL, refunded_at |-> NULL]

CbIdle ==
    [pc |-> "idle", event |-> NoEvent,
     cb_id |-> NULL, cb_new |-> FALSE, cb_loaded |-> NoCallback,
     cb_mem |-> NoCallback,
     pay_id |-> NULL, pay_mem |-> NoPayment,
     ref_id |-> NULL, ref_mem |-> NoRefund,
     del_id |-> NULL, del_new |-> FALSE, del_loaded |-> NoDelivery,
     del_mem |-> NoDelivery]

\* Callback ids in use by stored rows and open transactions.
CallbackIdsInUse ==
    DOMAIN callbacks \cup UNION {cb[h].cb_id : h \in DOMAIN cb}

DeliveryIdsInUse ==
    DOMAIN deliveries \cup UNION {cb[h].del_id : h \in DOMAIN cb}

\* Mutant: expired is mapped to failed.
outcome_map_expired_failed(outcome) ==
    CASE outcome = "succeeded" -> Some("succeeded")
      [] outcome = "failed"    -> Some("failed")
      [] outcome = "canceled"  -> Some("canceled")
      [] outcome = "expired"   -> Some("failed")
      [] outcome = "pending"   -> Some("pending")
      [] OTHER                 -> NULL

\* Mutant: completed is mapped to succeeded.
outcome_map_completed_succeeded(outcome) ==
    CASE outcome = "succeeded" -> Some("succeeded")
      [] outcome = "failed"    -> Some("failed")
      [] outcome = "canceled"  -> Some("canceled")
      [] outcome = "expired"   -> Some("canceled")
      [] outcome = "pending"   -> Some("pending")
      [] outcome = "completed" -> Some("succeeded")
      [] OTHER                 -> NULL

\* _map_outcome_to_status: outcome_map.get(outcome), NULL for None.
_map_outcome_to_status(outcome) ==
    CASE outcome = "succeeded" -> Some("succeeded")
      [] outcome = "failed"    -> Some("failed")
      [] outcome = "canceled"  -> Some("canceled")
      [] outcome = "expired"   -> Some("canceled")
      [] outcome = "pending"   -> Some("pending")
      [] OTHER                 -> NULL

\* outcome.startswith("refund_")
IsRefundOutcome(outcome) ==
    outcome \in {"refund_succeeded", "refund_failed", "refund_pending",
                 "refund_canceled", "refund_unknown"}

\* Mutant: the lookup by order number returns the oldest Payment.
PaymentsByOrderNoOldest(ev) ==
    IF ev.merchant_order_no = NULL THEN {}
    ELSE {p \in DOMAIN payments : p = 1}

\* The two lookups of _find_payment, each a scalar_one_or_none().
PaymentsByOrderNo(ev) ==
    IF ev.merchant_order_no = NULL THEN {}
    ELSE {p \in DOMAIN payments :
             Some(payments[p].merchant_order_no) = ev.merchant_order_no}

PaymentsByTxnId(ev) ==
    IF ev.provider_txn_id = NULL THEN {}
    ELSE {p \in DOMAIN payments :
             payments[p].provider_txn_id = ev.provider_txn_id}

\* _find_payment: the ids it may return; "many" when a lookup matches more
\* than one row (MultipleResultsFound).
_find_payment(ev) ==
    LET byNo == PaymentsByOrderNo(ev)
        byTxn == PaymentsByTxnId(ev) IN
    IF Cardinality(byNo) > 1 THEN [many |-> TRUE, ids |-> {}]
    ELSE IF byNo # {} THEN [many |-> FALSE, ids |-> byNo]
    ELSE IF Cardinality(byTxn) > 1 THEN [many |-> TRUE, ids |-> {}]
    ELSE [many |-> FALSE, ids |-> byTxn]

\* _upsert_callback: insert and flush; on IntegrityError roll back and read
\* the stored row.  The INSERT waits for an open transaction that holds an
\* insert of the same key.
_upsert_callback(h, ev) ==
    /\ cb[h].pc = "idle"
    /\ LET row == NewCallback(ev)
           stored == {c \in DOMAIN callbacks :
                        uq_callbacks_provider_provider_event_id(row, callbacks[c])}
       IN
       /\ ~ \E h2 \in DOMAIN cb \ {h} :
              /\ cb[h2].cb_new
              /\ uq_callbacks_provider_provider_event_id(row, cb[h2].cb_loaded)
       /\ cb' = [cb EXCEPT ![h] =
            IF stored # {}
            THEN LET c == CHOOSE c \in stored : TRUE IN
                 [CbIdle EXCEPT !.pc = "advance", !.event = ev,
                                !.cb_id = Some(c), !.cb_loaded = callbacks[c]]
            ELSE [CbIdle EXCEPT !.pc = "advance", !.event = ev,
                                !.cb_id = Some(FreshId(CallbackIdsInUse)),
                                !.cb_new = TRUE, !.cb_loaded = row]]
    /\ UNCHANGED <<now, payments, callbacks, deliveries, refunds, cp, cx, rf,
                   wk, hist>>

\* The Callback row a handler writes at commit: an INSERT of its new row, or
\* an UPDATE of the changed columns of the stored one.
WriteCallback(h, mem) ==
    LET c == CHOOSE c \in cb[h].cb_id : TRUE IN
    IF cb[h].cb_new THEN callbacks @@ (c :> mem)
    ELSE [callbacks EXCEPT ![c] = FlushRow(callbacks[c], cb[h].cb_loaded, mem)]

\* Mutant: the suffix is appended to the URL as stored.
rstrip_nothing(url) == url

RECURSIVE rstrip(_)
\* str.rstrip("/")
rstrip(url) ==
    IF url # << >> /\ url[Len(url)] = "/"
    THEN rstrip(SubSeq(url, 1, Len(url) - 1))
    ELSE url

\* The notify_url _create_webhook_delivery resolves, NULL when there is none.
ResolveNotifyUrl(payment, path_suffix) ==
    LET url == IF ~ Empty(payment.notify_url) THEN payment.notify_url
               ELSE AppNotifyUrl(payment.app_id) IN
    IF Empty(url) THEN NULL
    ELSE {rstrip(u) \o <<path_suffix>> : u \in url}

\* The WebhookDelivery(...) constructor call of _create_webhook_delivery.
NewDelivery(payment, pid, event_id, event_type, notify_url) ==
    [NoDelivery EXCEPT
        !.app_id = payment.app_id, !.payment_id = Some(pid),
        !.event_id = event_id, !.event_type = event_type,
        !.notify_url = notify_url, !.status = "pending",
        !.next_attempt_at = Some(now), !.created_at = Some(now)]

\* The re-queue branch of _create_webhook_delivery on an existing row.
Requeue(existing, notify_url) ==
    [existing EXCEPT
        !.notify_url = notify_url, !.status = "pending", !.attempt_count = 0,
        !.next_attempt_at = Some(now), !.last_attempt_at = NULL,
        !.last_http_status = NULL, !.last_error = NULL, !.delivered_at = NULL]

\* _create_webhook_delivery: what it leaves in the session: nothing (no
\* notify_url), a modified existing row, or a flushed new row.
_create_webhook_delivery(payment, pid, event_id, event_type, path_suffix) ==
    LET notify_url == ResolveNotifyUrl(payment, path_suffix)
        existing == {d \in DOMAIN deliveries :
                        /\ deliveries[d].app_id = payment.app_id
                        /\ deliveries[d].event_id = event_id}
    IN
    IF notify_url = NULL
    THEN [kind |-> "none", del_id |-> NULL, del_loaded |-> NoDelivery,
          del_mem |-> NoDelivery]
    ELSE IF Cardinality(existing) > 1
    THEN [kind |-> "many", del_id |-> NULL, del_loaded |-> NoDelivery,
          del_mem |-> NoDelivery]
    ELSE IF existing # {}
    THEN LET d == CHOOSE d \in existing : TRUE IN
         [kind |-> "requeue", del_id |-> Some(d), del_loaded |-> deliveries[d],
          del_mem |-> Requeue(deliveries[d], notify_url)]
    ELSE LET row == NewDelivery(payment, pid, event_id, event_type, notify_url) IN
         [kind |-> "insert", del_id |-> Some(FreshId(DeliveryIdsInUse)),
          del_loaded |-> row, del_mem |-> row]

\* Mutant: the event_id of a payment delivery names the payment only.
PaymentEventIdOfPayment(pid, event_status) == <<"payment", pid, "any">>

\* _create_payment_webhook_delivery: event_id = f"{payment.id}_{status}".
PaymentEventId(pid, event_status) == <<"payment", pid, event_status>>

\* The status advance of _process_payment_callback on the locked, refreshed
\* row: the in-memory Payment after lines 146-156.
AdvancePayment(payment, ev) ==
    LET new_status == _map_outcome_to_status(ev.outcome) IN
    IF new_status # NULL /\ new_status # Some(payment.status)
    THEN [payment EXCEPT
            !.status = CHOOSE s \in new_status : TRUE,
            !.provider_txn_id =
                IF ev.provider_txn_id # NULL /\ payment.provider_txn_id = NULL
                THEN ev.provider_txn_id ELSE @,
            !.paid_at =
                IF new_status = Some("succeeded") /\ payment.paid_at = NULL
                THEN Some(now) ELSE @]
    ELSE payment

\* A callback handler holds the FOR UPDATE lock of a Payment from
\* session.refresh(payment, with_for_update=True) to its commit or rollback.
PaymentLocked(p) ==
    \E h \in DOMAIN cb :
        /\ cb[h].pc = "commit"
        /\ cb[h].pay_id = Some(p)
        /\ cb[h].ref_id = NULL

\* process_callback, no Payment found: the Callback is marked failed and
\* committed.  When the lookup raises MultipleResultsFound the router answers
\* 500 and get_session commits what the session holds: the flushed Callback.
process_callback_not_found(h) ==
    /\ cb[h].pc = "advance"
    /\ LET found == _find_payment(cb[h].event) IN
       /\ found.many \/ found.ids = {}
       /\ IF found.many
          THEN /\ callbacks' = WriteCallback(h, cb[h].cb_loaded)
               /\ cb' = [cb EXCEPT ![h] = CbIdle]
          ELSE /\ callbacks' = WriteCallback(h,
                      [cb[h].cb_loaded EXCEPT !.status = "failed"])
               /\ cb' = [cb EXCEPT ![h] = CbIdle]
    /\ UNCHANGED <<now, payments, deliveries, refunds, cp, cx, rf, wk, hist>>

\* _process_payment_callback up to the commit: lock and refresh the Payment,
\* advance its status, prepare the WebhookDelivery and the Callback row.  A
\* new WebhookDelivery is flushed here, with the pending Payment UPDATE.  If
\* the WebhookDelivery lookup raises MultipleResultsFound, the router answers
\* 500 and get_session commits the session as it stands.
_process_payment_callback(h) ==
    /\ cb[h].pc = "advance"
    /\ ~ IsRefundOutcome(cb[h].event.outcome)
    /\ LET found == _find_payment(cb[h].event) IN
       /\ ~ found.many /\ found.ids # {}
       /\ LET p == CHOOSE p \in found.ids : TRUE
              ev == cb[h].event
              pay_mem == AdvancePayment(payments[p], ev)
              new_status == _map_outcome_to_status(ev.outcome)
              del == IF new_status \cap TerminalPayment # {}
                     THEN _create_webhook_delivery(pay_mem, p,
                              PaymentEventId(p, Val(new_status)),
                              <<"payment", Val(new_status)>>,
                              "/callback/payment")
                     ELSE [kind |-> "none", del_id |-> NULL,
                           del_loaded |-> NoDelivery, del_mem |-> NoDelivery]
          IN
          /\ ~ PaymentLocked(p)
          /\ cb' = [cb EXCEPT ![h] =
               IF del.kind = "insert" /\ ~ PaymentRowOk(pay_mem)
               THEN CbIdle
               ELSE [@ EXCEPT
                      !.pc = "commit", !.pay_id = Some(p), !.pay_mem = pay_mem,
                      !.del_id = del.del_id, !.del_new = (del.kind = "insert"),
                      !.del_loaded = del.del_loaded, !.del_mem = del.del_mem,
                      !.cb_mem = IF del.kind = "many"
                                 THEN [cb[h].cb_loaded EXCEPT
                                         !.payment_id = Some(p)]
                                 ELSE [cb[h].cb_loaded EXCEPT
                                         !.payment_id = Some(p),
                                         !.status = "processed",
                                         !.processed_at = Some(now)]]]
    /\ UNCHANGED <<now, payments, callbacks, deliveries, refunds, cp, cx, rf,
                   wk, hist>>

\* Mutant: the WebhookDelivery is written by a transaction of its own that
\* has not committed when the Payment's does.
WriteDeliveryLater(h) == deliveries

\* The WebhookDelivery table after a handler's flush at commit.
WriteDelivery(h) ==
    IF cb[h].del_id = NULL THEN deliveries
    ELSE LET d == CHOOSE d \in cb[h].del_id : TRUE IN
         IF cb[h].del_new THEN deliveries @@ (d :> cb[h].del_mem)
         ELSE [deliveries EXCEPT
                 ![d] = FlushRow(deliveries[d], cb[h].del_loaded, cb[h].del_mem)]

\* session.commit() of _process_payment_callback: the Payment UPDATE, the
\* WebhookDelivery and the Callback are written together, or, when a check
\* constraint rejects the Payment, all rolled back.  The lock is released.
process_payment_callback_commit(h) ==
    /\ cb[h].pc = "commit"
    /\ cb[h].ref_id = NULL
    /\ LET p == CHOOSE p \in cb[h].pay_id : TRUE IN
       IF PaymentRowOk(cb[h].pay_mem)
       THEN /\ payments' = [payments EXCEPT ![p] = cb[h].pay_mem]
            /\ deliveries' = WriteDelivery(h)
            /\ callbacks' = WriteCallback(h, cb[h].cb_mem)
            /\ hist' = IF cb[h].pay_mem.status # payments[p].status
                       THEN hist \cup {<<cb[h].event.provider,
                                         cb[h].event.provider_event_id>>}
                       ELSE hist
            /\ cb' = [cb EXCEPT ![h] = CbIdle]
       ELSE /\ cb' = [cb EXCEPT ![h] = CbIdle]
            /\ UNCHANGED <<payments, deliveries, callbacks, hist>>
    /\ UNCHANGED <<now, refunds, cp, cx, rf, wk>>

(* --------------------------------------------------------------- cancel *)

\* PaymentService.update_payment_status on an in-memory Payment.
update_payment_status(payment, new_status, provider_txn_id) ==
    [payment EXCEPT
        !.status = new_status,
        !.provider_txn_id =
            IF provider_txn_id # NULL /\ payment.provider_txn_id = NULL
            THEN provider_txn_id ELSE @,
        !.paid_at =
            IF new_status = "succeeded" /\ payment.paid_at = NULL
            THEN Some(now) ELSE @]

\* get_payment_by_id: the row of that id owned by the app, or NotFound.
get_payment_by_id(app, payment_id) ==
    {p \in DOMAIN payments : p = payment_id /\ payments[p].app_id = app}

\* error: the code of the error the handler's last cancel request ended
\* with, 0 when it ended with none; pay_id: the payment_id of that request.
CxIdle ==
    [pc |-> "idle", pay_id |-> NULL, pay_loaded |-> NoPayment, error |-> 0]

\* The cancel request for payment_id ended with an error response.
CxRaised(payment_id, code) ==
    [CxIdle EXCEPT !.pay_id = Some(payment_id), !.error = code]

\* Mutant: only a failed Payment is refused cancellation.
UncancelableFailed == {"failed"}

\* cancel_payment: payment.status in (succeeded, failed) is refused.
Uncancelable == {"succeeded", "failed"}

\* POST /v1/payments/cancel up to the adapter call: load the Payment and
\* reject or short-cut by its status as read.
cancel_payment_read(h, app, payment_id, merchant_order_no) ==
    /\ cx[h].pc = "idle"
    /\ LET found == get_payment_by_id(app, payment_id) IN
       cx' = [cx EXCEPT ![h] =
           IF found = {} THEN CxRaised(payment_id, 4041)
           ELSE LET payment == payments[payment_id] IN
                IF payment.merchant_order_no # merchant_order_no
                THEN CxRaised(payment_id, 4220)
                ELSE IF payment.status = "canceled"
                THEN [CxIdle EXCEPT !.pay_id = Some(payment_id)]
                ELSE IF payment.status \in Uncancelable
                THEN CxRaised(payment_id, 4000)
                ELSE [CxIdle EXCEPT !.pc = "provider",
                                    !.pay_id = Some(payment_id),
                                    !.pay_loaded = payment]]
    /\ UNCHANGED <<now, payments, callbacks, deliveries, refunds, cp, cb, rf,
                   wk, hist>>

\* The adapter canceled the order: update_payment_status(canceled) and
\* commit.  The UPDATE waits for a FOR UPDATE lock on the row.
cancel_payment_provider_ok(h) ==
    /\ cx[h].pc = "provider"
    /\ LET p == CHOOSE p \in cx[h].pay_id : TRUE
           mem == update_payment_status(cx[h].pay_loaded, "canceled", NULL)
           row == FlushRow(payments[p], cx[h].pay_loaded, mem)
       IN
       /\ ~ PaymentLocked(p)
       /\ IF PaymentRowOk(row)
          THEN /\ payments' = [payments EXCEPT ![p] = row]
               /\ cx' = [cx EXCEPT ![h] = [CxIdle EXCEPT !.pay_id = Some(p)]]
          ELSE /\ cx' = [cx EXCEPT ![h] = CxRaised(p, 5000)]
               /\ UNCHANGED payments
    /\ UNCHANGED <<now, callbacks, deliveries, refunds, cp, cb, rf, wk, hist>>

\* The adapter's cancel_payment raised (5021) or reported success = false
\* (5022): PaymentProviderException, nothing is written.
cancel_payment_provider_fails(h) ==
    /\ cx[h].pc = "provider"
    /\ \E code \in {5021, 5022} :
          cx' = [cx EXCEPT ![h] = CxRaised(Val(cx[h].pay_id), code)]
    /\ UNCHANGED <<now, payments, callbacks, deliveries, refunds, cp, cb, rf,
                   wk, hist>>

(* -------------------------------------------------------------- refunds *)

\* Mutant: no check constraint couples refunded_at with the status.
ck_refunds_refunded_at_unchecked(r) == TRUE

\* CheckConstraint("refund_amount > 0").
ck_refunds_amount_positive(r) == r.refund_amount > 0

\* CheckConstraint: status = succeeded exactly when refunded_at is not null.
ck_refunds_refunded_at_matches_status(r) ==
    \/ (r.status = "succeeded" /\ r.refunded_at # NULL)
    \/ (r.status # "succeeded" /\ r.refunded_at = NULL)

RefundRowOk(r) ==
    /\ ck_refunds_amount_positive(r)
    /\ ck_refunds_refunded_at_matches_status(r)

RECURSIVE SumAmounts(_)
\* func.sum(Refund.refund_amount) over a set of refund ids.
SumAmounts(ids) ==
    IF ids = {} THEN 0
    ELSE LET r == CHOOSE r \in ids : TRUE IN
         refunds[r].refund_amount + SumAmounts(ids \ {r})

\* error: the code of the exception the handler's last create_refund request
\* ended with, 0 when it has raised none.
RfIdle ==
    [pc |-> "idle", pay_id |-> NULL, refund_amount |-> 0, ref_id |-> NULL,
     ref_loaded |-> NoRefund, error |-> 0]

\* create_refund raised: the handler is done, the session rolled back.
RfRaised(code) == [RfIdle EXCEPT !.error = code]

\* Mutant: the cumulative-refund query counts succeeded refunds only.
TotalRefundedSucceeded(p) ==
    SumAmounts({r \in DOMAIN refunds :
                   /\ refunds[r].payment_id = Some(p)
                   /\ refunds[r].status = "succeeded"})

\* The cumulative-refund query of create_refund: the refunds of the payment
\* in status pending or succeeded.
TotalRefunded(p) ==
    SumAmounts({r \in DOMAIN refunds :
                   /\ refunds[r].payment_id = Some(p)
                   /\ refunds[r].status \in {"pending", "succeeded"}})

\* Refund ids in use by stored rows.
RefundIdsInUse == DOMAIN refunds

\* A callback handler holds the FOR UPDATE lock of a Refund from
\* session.refresh(refund, with_for_update=True) to its commit or rollback.
RefundLocked(r) ==
    \E h \in DOMAIN cb : cb[h].pc = "commit" /\ cb[h].ref_id = Some(r)

\* POST /v1/refunds up to the adapter call: the Payment must belong to the
\* app and be succeeded, and the amount must fit under the cumulative cap as
\* read now.  refund_amount NULL asks for a full refund.
create_refund_check(h, app, payment_id, refund_amount) ==
    /\ rf[h].pc = "idle"
    /\ Cardinality(DOMAIN refunds) < MaxRefunds
    /\ LET found == get_payment_by_id(app, payment_id) IN
       rf' = [rf EXCEPT ![h] =
           IF found = {} THEN RfRaised(4041)
           ELSE LET payment == payments[payment_id]
                    amount == IF refund_amount = NULL THEN payment.amount
                              ELSE Val(refund_amount)
                IN
                IF payment.status # "succeeded" THEN RfRaised(4001)
                ELSE IF amount > payment.amount THEN RfRaised(4002)
                ELSE IF TotalRefunded(payment_id) + amount > payment.amount
                THEN RfRaised(4003)
                ELSE IF payment.provider # "stripe"
                THEN RfRaised(IF payment.provider = "alipay" THEN 5031
                              ELSE 5032)
                ELSE [RfIdle EXCEPT !.pc = "provider",
                                    !.pay_id = Some(payment_id),
                                    !.refund_amount = amount]]
    /\ UNCHANGED <<now, payments, callbacks, deliveries, refunds, cp, cb, cx,
                   wk, hist>>

\* The Refund(...) constructor call of create_refund.
NewRefund(p, amount, status, provider_refund_id) ==
    [payment_id         |-> Some(p),
     refund_amount      |-> amount,
     status             |-> status,
     provider           |-> payments[p].provider,
     provider_refund_id |-> provider_refund_id,
     refunded_at        |-> IF status = "succeeded" THEN Some(now) ELSE NULL]

\* Stripe's refund status as create_refund maps it.
MapCreateStatus(stripe_status) ==
    IF stripe_status = "succeeded" THEN "succeeded"
    ELSE IF stripe_status = "failed" THEN "failed"
    ELSE "pending"

\* The adapter created the refund: the Refund row is inserted and committed.
\* Stripe names the refund; the name is modelled by the row's id.
create_refund_provider_ok(h, stripe_status) ==
    /\ rf[h].pc = "provider"
    /\ LET r == FreshId(RefundIdsInUse)
           row == NewRefund(Val(rf[h].pay_id), rf[h].refund_amount,
                            MapCreateStatus(stripe_status), Some(r))
       IN
       IF RefundRowOk(row)
       THEN refunds' = refunds @@ (r :> row)
       ELSE UNCHANGED refunds
    /\ rf' = [rf EXCEPT ![h] = RfIdle]
    /\ UNCHANGED <<now, payments, callbacks, deliveries, cp, cb, cx, wk, hist>>

\* The adapter's create_refund raised: nothing is stored.
create_refund_provider_raises(h) ==
    /\ rf[h].pc = "provider"
    /\ rf' = [rf EXCEPT ![h] = RfRaised(5001)]
    /\ UNCHANGED <<now, payments, callbacks, deliveries, refunds, cp, cb, cx,
                   wk, hist>>

\* POST /v1/refunds/{id}/sync up to the adapter call: a Refund in a final
\* status, or without provider_refund_id, or of a provider other than
\* stripe, is not synced.
sync_refund_status_read(h, refund_id) ==
    /\ rf[h].pc = "idle"
    /\ rf' = [rf EXCEPT ![h] =
           IF refund_id \notin DOMAIN refunds THEN RfIdle
           ELSE LET refund == refunds[refund_id] IN
                IF refund.status \in {"succeeded", "failed", "canceled"}
                THEN RfIdle
                ELSE IF refund.provider_refund_id = NULL THEN RfIdle
                ELSE IF refund.provider # "stripe" THEN RfIdle
                ELSE [RfIdle EXCEPT !.pc = "sync", !.ref_id = Some(refund_id),
                                    !.ref_loaded = refund]]
    /\ UNCHANGED <<now, payments, callbacks, deliveries, refunds, cp, cb, cx,
                   wk, hist>>

\* The status update of sync_refund_status on the in-memory Refund.
SyncRefund(refund, stripe_status) ==
    IF stripe_status = "succeeded"
    THEN [refund EXCEPT !.status = "succeeded", !.refunded_at = Some(now)]
    ELSE IF stripe_status = "failed" THEN [refund EXCEPT !.status = "failed"]
    ELSE IF stripe_status = "canceled"
    THEN [refund EXCEPT !.status = "canceled"]
    ELSE refund

\* The adapter's get_refund answered: a changed status is committed.  The
\* UPDATE waits for a FOR UPDATE lock on the row; a check-constraint failure
\* rolls it back.
sync_refund_status_provider(h, stripe_status) ==
    /\ rf[h].pc = "sync"
    /\ LET r == Val(rf[h].ref_id)
           mem == SyncRefund(rf[h].ref_loaded, stripe_status)
           row == FlushRow(refunds[r], rf[h].ref_loaded, mem)
       IN
       /\ mem.status # rf[h].ref_loaded.status => ~ RefundLocked(r)
       /\ IF mem.status # rf[h].ref_loaded.status /\ RefundRowOk(row)
          THEN refunds' = [refunds EXCEPT ![r] = row]
          ELSE UNCHANGED refunds
    /\ rf' = [rf EXCEPT ![h] = RfIdle]
    /\ UNCHANGED <<now, payments, callbacks, deliveries, cp, cb, cx, wk, hist>>

\* outcome_map of _process_refund_callback, NULL for None.
RefundOutcomeMap(outcome) ==
    CASE outcome = "refund_succeeded" -> Some("succeeded")
      [] outcome = "refund_failed"    -> Some("failed")
      [] outcome = "refund_pending"   -> Some("pending")
      [] outcome = "refund_canceled"  -> Some("canceled")
      [] OTHER                        -> NULL

\* The status advance of _process_refund_callback on the locked, refreshed
\* row: the in-memory Refund after lines 119-127.
AdvanceRefund(refund, ev) ==
    LET new_status == RefundOutcomeMap(ev.outcome) IN
    IF new_status # NULL /\ new_status # Some(refund.status)
    THEN [refund EXCEPT
            !.status = Val(new_status),
            !.refunded_at =
                IF new_status = Some("succeeded") /\ refund.refunded_at = NULL
                THEN Some(now) ELSE @]
    ELSE refund

\* The Refund lookup of _process_refund_callback: by provider_refund_id and
\* the payload's provider.
RefundsByProviderRefundId(ev) ==
    {r \in DOMAIN refunds :
        /\ refunds[r].provider_refund_id = ev.provider_refund_id
        /\ refunds[r].provider = ev.provider}

\* _process_refund_callback without a Refund to advance: the payload has no
\* refund id or no Refund matches, and the Callback is marked failed and
\* committed with the Payment found.  When the Refund lookup raises
\* MultipleResultsFound the router answers 500 and get_session commits the
\* session as it stands.
process_refund_callback_not_found(h) ==
    /\ cb[h].pc = "advance"
    /\ IsRefundOutcome(cb[h].event.outcome)
    /\ LET found == _find_payment(cb[h].event)
           ev == cb[h].event
           matches == RefundsByProviderRefundId(ev)
       IN
       /\ ~ found.many /\ found.ids # {}
       /\ ev.provider_refund_id = NULL \/ Cardinality(matches) # 1
       /\ LET p == CHOOSE p \in found.ids : TRUE IN
          callbacks' = WriteCallback(h,
              IF ev.provider_refund_id # NULL /\ Cardinality(matches) > 1
              THEN [cb[h].cb_loaded EXCEPT !.payment_id = Some(p)]
              ELSE [cb[h].cb_loaded EXCEPT !.payment_id = Some(p),
                                           !.status = "failed"])
    /\ cb' = [cb EXCEPT ![h] = CbIdle]
    /\ UNCHANGED <<now, payments, deliveries, refunds, cp, cx, rf, wk, hist>>

\* _process_refund_callback up to the commit: lock and refresh the Refund,
\* advance its status, prepare the WebhookDelivery (addressed through the
\* Payment that _find_payment returned) and the Callback row.  A new
\* WebhookDelivery is flushed here, with the pending Refund UPDATE.
_process_refund_callback(h) ==
    /\ cb[h].pc = "advance"
    /\ IsRefundOutcome(cb[h].event.outcome)
    /\ LET found == _find_payment(cb[h].event)
           ev == cb[h].event
           matches == RefundsByProviderRefundId(ev)
       IN
       /\ ~ found.many /\ found.ids # {}
       /\ ev.provider_refund_id # NULL /\ Cardinality(matches) = 1
       /\ LET p == CHOOSE p \in found.ids : TRUE
              r == CHOOSE r \in matches : TRUE
              ref_mem == AdvanceRefund(refunds[r], ev)
              new_status == RefundOutcomeMap(ev.outcome)
              del == IF new_status # NULL
                     THEN _create_webhook_delivery(payments[p], p,
                              <<"refund", r, Val(new_status)>>,
                              <<"refund", Val(new_status)>>,
                              "/callback/refund")
                     ELSE [kind |-> "none", del_id |-> NULL,
                           del_loaded |-> NoDelivery, del_mem |-> NoDelivery]
          IN
          /\ ~ RefundLocked(r)
          /\ cb' = [cb EXCEPT ![h] =
               IF del.kind = "insert" /\ ~ RefundRowOk(ref_mem)
               THEN CbIdle
               ELSE [@ EXCEPT
                      !.pc = "commit", !.pay_id = Some(p),
                      !.ref_id = Some(r), !.ref_mem = ref_mem,
                      !.del_id = del.del_id, !.del_new = (del.kind = "insert"),
                      !.del_loaded = del.del_loaded, !.del_mem = del.del_mem,
                      !.cb_mem = IF del.kind = "many"
                                 THEN [cb[h].cb_loaded EXCEPT
                                         !.payment_id = refunds[r].payment_id]
                                 ELSE [cb[h].cb_loaded EXCEPT
                                         !.payment_id = refunds[r].payment_id,
                                         !.status = "processed",
                                         !.processed_at = Some(now)]]]
    /\ UNCHANGED <<now, payments, callbacks, deliveries, refunds, cp, cx, rf,
                   wk, hist>>

\* session.commit() of _process_refund_callback: the Refund UPDATE, the
\* WebhookDelivery and the Callback are written together, or, when a check
\* constraint rejects the Refund, all rolled back.  The lock is released.
process_refund_callback_commit(h) ==
    /\ cb[h].pc = "commit"
    /\ cb[h].ref_id # NULL
    /\ LET r == Val(cb[h].ref_id) IN
       IF RefundRowOk(cb[h].ref_mem)
       THEN /\ refunds' = [refunds EXCEPT ![r] = cb[h].ref_mem]
            /\ deliveries' = WriteDelivery(h)
            /\ callbacks' = WriteCallback(h, cb[h].cb_mem)
       ELSE UNCHANGED <<refunds, deliveries, callbacks>>
    /\ cb' = [cb EXCEPT ![h] = CbIdle]
    /\ UNCHANGED <<now, payments, cp, cx, rf, wk, hist>>

(* --------------------------------------------------------------- worker *)

\* Settings.worker_batch_size
worker_batch_size == 10

RECURSIVE Pow2(_)
\* 2**n
Pow2(n) == IF n = 0 THEN 1 ELSE 2 * Pow2(n - 1)

Workers == {"w1"}

\* run.py starts one worker per process; two processes share the database.
WorkerProcesses == {"w1", "w2"}

WkIdle == [pc |-> "idle", batch |-> << >>]

\* Mutant: the poll picks up rows in status failed only.
DueFailedOnly(row) ==
    /\ row.status = "failed"
    /\ row.attempt_count < worker_max_retries
    /\ (row.next_attempt_at = NULL \/ Val(row.next_attempt_at) <= now)

\* The WHERE clause of process_pending_deliveries.
Due(row) ==
    /\ row.status \in {"pending", "failed"}
    /\ row.attempt_count < worker_max_retries
    /\ (row.next_attempt_at = NULL \/ Val(row.next_attempt_at) <= now)

\* The rows the poll's WHERE clause selects.
DueDeliveries == {d \in DOMAIN deliveries : Due(deliveries[d])}

\* ORDER BY created_at LIMIT batch_size: the batches the query may return,
\* rows of equal created_at in any order.
Batches ==
    LET due == DueDeliveries
        n == Cardinality(due)
        k == IF n < worker_batch_size THEN n ELSE worker_batch_size
        sorted == {s \in [1..n -> due] :
                     /\ \A i, j \in 1..n : i # j => s[i] # s[j]
                     /\ \A i, j \in 1..n :
                           i < j => Val(deliveries[s[i]].created_at)
                                      <= Val(deliveries[s[j]].created_at)}
    IN {[i \in 1..k |-> [id |-> s[i], row |-> deliveries[s[i]]]] : s \in sorted}

\* process_pending_deliveries: the poll.  With no due row the worker sleeps
\* and polls again.
process_pending_deliveries(w) ==
    /\ wk[w].pc = "idle"
    /\ DueDeliveries # {}
    /\ \E batch \in Batches :
          wk' = [wk EXCEPT ![w] = [pc |-> "deliver", batch |-> batch]]
    /\ UNCHANGED <<now, payments, callbacks, deliveries, refunds, cp, cb, cx,
                   rf, hist>>

\* deliver_webhook up to the POST: the next row of the batch is marked
\* processing, its attempt counted, and committed.
deliver_webhook(w) ==
    /\ wk[w].pc = "deliver"
    /\ LET d == Head(wk[w].batch).id
           loaded == Head(wk[w].batch).row
           mem == [loaded EXCEPT !.status = "processing",
                                 !.attempt_count = @ + 1,
                                 !.last_attempt_at = Some(now)]
       IN
       /\ deliveries' = [deliveries EXCEPT ![d] = FlushRow(@, loaded, mem)]
       /\ wk' = [wk EXCEPT ![w].pc = "post",
                           ![w].batch = <<[id |-> d, row |-> mem]>>
                                            \o Tail(wk[w].batch)]
    /\ UNCHANGED <<now, payments, callbacks, refunds, cp, cb, cx, rf, hist>>

\* The worker moves on to the next row of its batch, or sleeps.
AfterDelivery(w) ==
    [pc |-> IF Tail(wk[w].batch) = << >> THEN "idle" ELSE "deliver",
     batch |-> Tail(wk[w].batch)]

\* deliver_webhook, the endpoint answered 2xx: succeeded and committed.
deliver_webhook_2xx(w) ==
    /\ wk[w].pc = "post"
    /\ LET d == Head(wk[w].batch).id
           loaded == Head(wk[w].batch).row
           mem == [loaded EXCEPT !.last_http_status = Some(200),
                                 !.status = "succeeded",
                                 !.delivered_at = Some(now),
                                 !.next_attempt_at = NULL]
       IN
       /\ deliveries' = [deliveries EXCEPT ![d] = FlushRow(@, loaded, mem)]
       /\ wk' = [wk EXCEPT ![w] = AfterDelivery(w)]
    /\ UNCHANGED <<now, payments, callbacks, refunds, cp, cb, cx, rf, hist>>

\* schedule_retry on the in-memory row: dead letter at max_retries, else
\* failed with next_attempt_at = now + 2**attempt_count + jitter.
schedule_retry(row, jitter) ==
    IF row.attempt_count >= worker_max_retries
    THEN [row EXCEPT !.status = "dead", !.next_attempt_at = NULL]
    ELSE [row EXCEPT !.status = "failed",
                     !.next_attempt_at =
                         Some(now + Pow2(row.attempt_count) + jitter)]

\* random.uniform(0, base_delay * 0.2), in whole seconds.
Jitters(row) == 0..(Pow2(row.attempt_count) \div 5)

\* deliver_webhook, the endpoint answered non-2xx (http = Some(code)) or the
\* request raised (http = NULL): schedule_retry and commit.
deliver_webhook_fails(w, http) ==
    /\ wk[w].pc = "post"
    /\ LET d == Head(wk[w].batch).id
           loaded == Head(wk[w].batch).row
       IN
       \E jitter \in Jitters(loaded) :
          LET mem == schedule_retry(
                         [loaded EXCEPT
                            !.last_http_status = http,
                            !.last_error = IF http = NULL
                                           THEN Some("RequestError")
                                           ELSE Some("HTTP")],
                         jitter)
          IN
          /\ deliveries' = [deliveries EXCEPT ![d] = FlushRow(@, loaded, mem)]
          /\ wk' = [wk EXCEPT ![w] = AfterDelivery(w)]
    /\ UNCHANGED <<now, payments, callbacks, refunds, cp, cb, cx, rf, hist>>

(* ------------------------------------------- callbacks and cancellation *)

CallbackHandlers == {"cb1", "cb2"}

CancelHandlers == {"cx1"}

RefundHandlers == {"rf1", "rf2"}

Callers == {1, 2, 3}

EventIds == {"evt_1", "evt_2"}

\* Outcomes the adapters emit for payment events.
PaymentOutcomes ==
    {"succeeded", "failed", "canceled", "expired", "pending", "completed"}

\* S1's order: App a1, order ord-1, provider stripe, 1 x 2 USD.
ReqOrd1 ==
    [app |-> "a1", merchant_order_no |-> "ord-1", provider |-> "stripe",
     unit_amount |-> 1, quantity |-> 2, currency |-> "USD", notify_url |-> NULL]

\* Payment events of the stripe endpoint for order ord-1 / intent pi_abc.
PaymentEvents ==
    {[provider |-> "stripe", provider_event_id |-> e,
      provider_txn_id |-> Some("pi_abc"), merchant_order_no |-> Some("ord-1"),
      outcome |-> o, provider_refund_id |-> NULL] :
        e \in EventIds, o \in PaymentOutcomes}

\* A provider event id names one event: a redelivery carries the payload the
\* stored Callback row (or a handler in flight) has for that id.
SameEventAsBefore(ev) ==
    /\ \A c \in DOMAIN callbacks :
          uq_callbacks_provider_provider_event_id(callbacks[c], NewCallback(ev))
              => callbacks[c].payload = ev
    /\ \A h \in DOMAIN cb :
          (cb[h].pc # "idle"
             /\ cb[h].event.provider = ev.provider
             /\ cb[h].event.provider_event_id = ev.provider_event_id)
              => cb[h].event = ev

InitIdle ==
    /\ now = 1
    /\ callbacks = << >>
    /\ deliveries = << >>
    /\ refunds = << >>
    /\ cp = [h \in Callers |-> CpIdle]
    /\ cb = [h \in CallbackHandlers |-> CbIdle]
    /\ cx = [h \in CancelHandlers |-> CxIdle]
    /\ rf = [h \in RefundHandlers |-> RfIdle]
    /\ wk = [w \in WorkerProcesses |-> WkIdle]
    /\ hist = {}

\* No Payment yet: one caller creates S1's order while callbacks for it and
\* cancellations arrive.
Init ==
    /\ InitIdle
    /\ payments = << >>

Next ==
    \/ create_or_get_payment_select(1, ReqOrd1)
    \/ create_or_get_payment_flush(1)
    \/ \E txn \in {NULL, Some("pi_abc")} : create_payment_provider_ok(1, txn)
    \/ create_payment_provider_raises(1)
    \/ \E h \in CallbackHandlers, ev \in PaymentEvents :
          SameEventAsBefore(ev) /\ _upsert_callback(h, ev)
    \/ \E h \in CallbackHandlers : process_callback_not_found(h)
    \/ \E h \in CallbackHandlers : _process_payment_callback(h)
    \/ \E h \in CallbackHandlers : process_payment_callback_commit(h)
    \/ \E h \in CancelHandlers : cancel_payment_read(h, "a1", 1, "ord-1")
    \/ \E h \in CancelHandlers : cancel_payment_provider_ok(h)
    \/ \E h \in CancelHandlers : cancel_payment_provider_fails(h)

Spec == Init /\ [][Next]_vars

(* ------------------------------------------------ concurrent creation *)

\* Orders the callers submit for order number ord-1: S1's order, the same
\* total reached as 2 x 1, and one that differs from it in the total, in the
\* currency, in the provider, and in the app.
Requests ==
    {ReqOrd1,
     [ReqOrd1 EXCEPT !.unit_amount = 2, !.quantity = 1],
     [ReqOrd1 EXCEPT !.quantity = 1],
     [ReqOrd1 EXCEPT !.currency = "CNY"],
     [ReqOrd1 EXCEPT !.provider = "alipay"],
     [ReqOrd1 EXCEPT !.app = "a2"]}

InitCreate ==
    /\ InitIdle
    /\ payments = << >>

NextCreate ==
    \/ \E h \in Callers, req \in Requests : create_or_get_payment_select(h, req)
    \/ \E h \in Callers : create_or_get_payment_flush(h)
    \/ \E h \in Callers, txn \in {NULL, Some("pi_abc")} :
          create_payment_provider_ok(h, txn)
    \/ \E h \in Callers : create_payment_provider_raises(h)

SpecCreate == InitCreate /\ [][NextCreate]_vars

\* Stored rows with the key of a request.
RowsOfKey(req) ==
    {p \in DOMAIN payments :
        /\ payments[p].app_id = req.app
        /\ payments[p].merchant_order_no = req.merchant_order_no}

\* A stored row's amount, currency or provider differs from the request's.
Differs(row, req) ==
    \/ row.amount # req.unit_amount * req.quantity
    \/ row.currency # req.currency
    \/ row.provider # req.provider

\* C5: no state holds two Payment rows with the same (app_id,
\* merchant_order_no), and once a create for a key has finished other than by
\* a provider failure, exactly one row with that key is stored.
PaymentUniqueness ==
    /\ \A p, q \in DOMAIN payments :
          (payments[p].app_id = payments[q].app_id
             /\ payments[p].merchant_order_no = payments[q].merchant_order_no)
              => p = q
    /\ \A h \in Callers :
          (cp[h].pc = "done" /\ cp[h].error # "ProviderError")
              => Cardinality(RowsOfKey(cp[h].req)) = 1

\* C5 witness: two callers raced on one key, one inserted and committed, the
\* other lost the insert race, and one row is stored.
PaymentUniquenessWitness ==
    \E h1, h2 \in Callers :
        /\ h1 # h2
        /\ cp[h1].pc = "done" /\ cp[h2].pc = "done"
        /\ cp[h1].req.app = cp[h2].req.app
        /\ cp[h1].is_new /\ cp[h1].error = "none"
        /\ cp[h2].error = "Conflict4092"
        /\ Cardinality(RowsOfKey(cp[h1].req)) = 1

\* C6: when all callers used the same (app, merchant_order_no), amount,
\* currency and provider and none met a provider failure, every caller
\* returned successfully with the same payment id and exactly one of them
\* observed is_new = true.
ConcurrentCreateOutcome ==
    ( /\ \A h \in Callers : cp[h].pc = "done" /\ cp[h].error # "ProviderError"
      /\ \A h1, h2 \in Callers :
            /\ cp[h1].req.app = cp[h2].req.app
            /\ cp[h1].req.merchant_order_no = cp[h2].req.merchant_order_no
            /\ TotalAmount(cp[h1].req) = TotalAmount(cp[h2].req)
            /\ cp[h1].req.currency = cp[h2].req.currency
            /\ cp[h1].req.provider = cp[h2].req.provider )
    => ( /\ \A h \in Callers : cp[h].error = "none"
         /\ \A h1, h2 \in Callers : cp[h1].payment_id = cp[h2].payment_id
         /\ Cardinality({h \in Callers : cp[h].is_new}) = 1 )

\* C7: a step of create_or_get_payment that meets a stored row of its key
\* whose amount, currency or provider differs from the request ends in
\* Conflict and leaves the payments table unchanged.
ConflictingIdempotency ==
    [][\A h \in Callers :
          ( /\ cp[h].pc \in {"idle", "flush"}
            /\ cp'[h] # cp[h]
            /\ \E p \in RowsOfKey(cp'[h].req) : Differs(payments[p], cp'[h].req) )
          => ( /\ cp'[h].pc = "done"
               /\ cp'[h].error \in {"Conflict4091", "Conflict4092"}
               /\ payments' = payments )]_vars

\* C7 witness: a caller was refused with Conflict by the idempotency check
\* against a stored row that differs from its request.
ConflictingIdempotencyWitness ==
    \E h \in Callers :
        /\ cp[h].pc = "done"
        /\ cp[h].error = "Conflict4091"
        /\ \E p \in RowsOfKey(cp[h].req) : Differs(payments[p], cp[h].req)

(* ------------------------------------------- claims on callback handling *)

\* A step of a callback handler (process_callback at work).
CallbackStep == cb' # cb

\* C1: once a Payment's status is succeeded, failed or canceled, no step of
\* process_callback, whatever the event's outcome and id, changes that
\* Payment's status.
TerminalStickiness ==
    [][\A p \in DOMAIN payments :
          (payments[p].status \in TerminalPayment /\ CallbackStep)
              => payments'[p].status = payments[p].status]_vars

\* C3: in every committed state every Payment has status succeeded if and
\* only if its paid_at is not null.
PaymentTimestampCoupling ==
    \A p \in DOMAIN payments :
        payments[p].status = "succeeded" <=> payments[p].paid_at # NULL

\* C3 witness: a Payment was created, a callback made it succeeded with
\* paid_at set, and a later callback for it has been processed as well.
PaymentTimestampCouplingWitness ==
    \E p \in DOMAIN payments :
        /\ payments[p].status = "succeeded"
        /\ payments[p].paid_at # NULL
        /\ cp[1].pc = "done"
        /\ \E c1, c2 \in DOMAIN callbacks :
              /\ c1 # c2
              /\ callbacks[c1].payment_id = Some(p)
              /\ callbacks[c2].payment_id = Some(p)
              /\ callbacks[c1].payload.outcome = "succeeded"
              /\ callbacks[c2].payload.outcome # "succeeded"

\* C8: at most one Callback row exists for a (provider, provider_event_id),
\* and a commit of process_callback changes the Payment's status on account
\* of an event only if no earlier commit did so for that event.
CallbackDedup ==
    [][/\ \A c1, c2 \in DOMAIN callbacks' :
             uq_callbacks_provider_provider_event_id(callbacks'[c1],
                                                     callbacks'[c2])
                 => c1 = c2
       /\ \A h \in CallbackHandlers :
             ( /\ cb[h].pc = "commit"
               /\ cb'[h] # cb[h]
               /\ \E p \in cb[h].pay_id :
                     payments'[p].status # payments[p].status )
             => <<cb[h].event.provider, cb[h].event.provider_event_id>>
                    \notin hist]_vars

(* ------------------------------------------------- callbacks and worker *)

\* Outcomes of the events of S1/S2: the payment succeeded or failed.
DeliveryOutcomes == {"succeeded", "failed"}

DeliveryEvents ==
    {ev \in PaymentEvents : ev.outcome \in DeliveryOutcomes}

\* One event, evt_1, that reports the payment succeeded or failed.
ReplayEvents ==
    {ev \in DeliveryEvents : ev.provider_event_id = "evt_1"}

\* S1's order is stored and pending with the provider.
InitWorker ==
    /\ InitIdle
    /\ payments = (1 :> [NewPayment(ReqOrd1) EXCEPT
                            !.provider_txn_id = Some("pi_abc")])

\* S2: the callback evt_1 arrives and is replayed while the worker delivers
\* and the clock advances; the merchant endpoint answers 2xx, 500, or not at
\* all.
NextWorker ==
    \/ Tick
    \/ \E ev \in ReplayEvents :
          SameEventAsBefore(ev) /\ _upsert_callback("cb1", ev)
    \/ _process_payment_callback("cb1")
    \/ process_payment_callback_commit("cb1")
    \/ \E w \in Workers : process_pending_deliveries(w)
    \/ \E w \in Workers : deliver_webhook(w)
    \/ \E w \in Workers : deliver_webhook_2xx(w)
    \/ \E w \in Workers, http \in {NULL, Some(500)} :
          deliver_webhook_fails(w, http)

SpecWorker == InitWorker /\ [][NextWorker]_vars

\* Two events: evt_1 reports the payment failed, evt_2 that it succeeded.
LiveEvents ==
    {ev \in DeliveryEvents :
        ev.provider_event_id = "evt_1" <=> ev.outcome = "failed"}

\* The merchant endpoint answers every POST with 2xx.
NextLive ==
    \/ Tick
    \/ \E ev \in LiveEvents :
          SameEventAsBefore(ev) /\ _upsert_callback("cb1", ev)
    \/ _process_payment_callback("cb1")
    \/ process_payment_callback_commit("cb1")
    \/ \E w \in Workers : process_pending_deliveries(w)
    \/ \E w \in Workers : deliver_webhook(w)
    \/ \E w \in Workers : deliver_webhook_2xx(w)

\* The worker loop keeps running: start() polls again after every sleep, and
\* a batch once read is worked through.
WorkerFairness ==
    \A w \in Workers :
        /\ WF_vars(process_pending_deliveries(w))
        /\ WF_vars(deliver_webhook(w))
        /\ WF_vars(deliver_webhook_2xx(w))

SpecLive == InitWorker /\ [][NextLive]_vars /\ WorkerFairness

(* ------------------------------------------ claims on replay and delivery *)

\* The columns of a Callback row a replay is said to leave alone.
CallbackView(r) == <<r.status, r.processed_at, r.payment_id>>

\* The columns of a WebhookDelivery row a replay is said to leave alone.
DeliveryView(r) ==
    <<r.status, r.attempt_count, r.next_attempt_at, r.delivered_at>>

\* C9: a step of process_callback on an event whose Callback row was read
\* back with status processed changes nothing: no Callback row's status,
\* processed_at or payment_id, no Payment, no Refund, and no WebhookDelivery
\* row's status, attempt_count, next_attempt_at or delivered_at.
ReplayIsNoOp ==
    [][\A h \in CallbackHandlers :
          ( /\ cb[h].pc # "idle"
            /\ ~ cb[h].cb_new
            /\ cb[h].cb_loaded.status = "processed"
            /\ cb'[h] # cb[h] )
          => ( /\ DOMAIN callbacks' = DOMAIN callbacks
               /\ \A c \in DOMAIN callbacks :
                     CallbackView(callbacks'[c]) = CallbackView(callbacks[c])
               /\ payments' = payments
               /\ refunds' = refunds
               /\ DOMAIN deliveries' = DOMAIN deliveries
               /\ \A d \in DOMAIN deliveries :
                     DeliveryView(deliveries'[d])
                         = DeliveryView(deliveries[d]) )]_vars

\* Ids a Payment's WebhookDelivery rows can take: one per terminal status.
DeliveryIds == 1..Cardinality(TerminalPayment)

\* C10: with a merchant endpoint that answers every POST with 2xx and a
\* worker loop that keeps polling, every WebhookDelivery that is enqueued
\* eventually has status succeeded.
AtLeastOnceDelivery ==
    \A d \in DeliveryIds :
        (d \in DOMAIN deliveries)
            ~> (d \in DOMAIN deliveries /\ deliveries[d].status = "succeeded")

\* C10 witness: the worker delivered an enqueued WebhookDelivery on its
\* first attempt and a 2xx answer made it succeeded.
AtLeastOnceDeliveryWitness ==
    \E d \in DOMAIN deliveries :
        /\ deliveries[d].status = "succeeded"
        /\ deliveries[d].attempt_count = 1
        /\ deliveries[d].last_http_status = Some(200)
        /\ deliveries[d].delivered_at # NULL

(* -------------------------------------------------------------- refunding *)

\* Refund events for order ord-1: they name the first refund, or none.
RefundEvents ==
    {[provider |-> "stripe", provider_event_id |-> e,
      provider_txn_id |-> Some("pi_abc"), merchant_order_no |-> Some("ord-1"),
      outcome |-> o, provider_refund_id |-> r] :
        e \in EventIds,
        o \in {"refund_succeeded", "refund_failed", "refund_pending"},
        r \in {NULL, Some(1)}}

\* One event, evt_1, about the first refund: it succeeded, or is pending.
FirstRefundEvents ==
    {ev \in RefundEvents :
        /\ ev.provider_event_id = "evt_1"
        /\ ev.provider_refund_id = Some(1)
        /\ ev.outcome \in {"refund_succeeded", "refund_pending"}}

\* Two events: evt_1 reports a refund succeeded, evt_2 that one failed or is
\* pending.
OrderedRefundEvents ==
    {ev \in RefundEvents :
        ev.provider_event_id = "evt_1" <=> ev.outcome = "refund_succeeded"}

\* What stripe reports for a refund.
StripeRefundStatuses == {"succeeded", "failed", "canceled", "pending"}

\* S1's order has been paid.
InitRefund ==
    /\ InitIdle
    /\ payments = (1 :> [NewPayment(ReqOrd1) EXCEPT
                            !.provider_txn_id = Some("pi_abc"),
                            !.status = "succeeded", !.paid_at = Some(1)])

\* Refunds of the payment are requested concurrently, in full or for 1, and
\* synced, while refund callbacks arrive.
NextRefund ==
    \/ \E h \in RefundHandlers, amount \in {NULL, Some(1)} :
          create_refund_check(h, "a1", 1, amount)
    \/ \E h \in RefundHandlers, st \in StripeRefundStatuses :
          create_refund_provider_ok(h, st)
    \/ \E h \in RefundHandlers : create_refund_provider_raises(h)
    \/ \E h \in RefundHandlers, r \in 1..MaxRefunds :
          sync_refund_status_read(h, r)
    \/ \E h \in RefundHandlers, st \in StripeRefundStatuses :
          sync_refund_status_provider(h, st)
    \/ \E ev \in FirstRefundEvents :
          SameEventAsBefore(ev) /\ _upsert_callback("cb1", ev)
    \/ process_refund_callback_not_found("cb1")
    \/ _process_refund_callback("cb1")
    \/ process_refund_callback_commit("cb1")

SpecRefund == InitRefund /\ [][NextRefund]_vars

\* Refunds of the payment are requested one after the other, in full or for
\* 1, and synced, while refund callbacks arrive.
NextRefundSync ==
    \/ \E h \in {"rf1"}, amount \in {NULL, Some(1)} :
          create_refund_check(h, "a1", 1, amount)
    \/ \E h \in {"rf1"}, st \in StripeRefundStatuses :
          create_refund_provider_ok(h, st)
    \/ \E h \in {"rf1"} : create_refund_provider_raises(h)
    \/ \E h \in {"rf1"}, r \in 1..MaxRefunds :
          sync_refund_status_read(h, r)
    \/ \E h \in {"rf1"}, st \in StripeRefundStatuses :
          sync_refund_status_provider(h, st)
    \/ \E ev \in OrderedRefundEvents :
          SameEventAsBefore(ev) /\ _upsert_callback("cb1", ev)
    \/ process_refund_callback_not_found("cb1")
    \/ _process_refund_callback("cb1")
    \/ process_refund_callback_commit("cb1")

SpecRefundSync == InitRefund /\ [][NextRefundSync]_vars

(* ------------------------------------------------------ claims on refunds *)

\* C2: in every state, for every Payment, the refund_amount of its Refunds
\* in status pending or succeeded sums to at most the Payment's amount.
RefundCap ==
    \A p \in DOMAIN payments : TotalRefunded(p) <= payments[p].amount

\* C4: in every committed state every Refund has status succeeded if and
\* only if its refunded_at is not null.
RefundTimestampCoupling ==
    \A r \in DOMAIN refunds :
        refunds[r].status = "succeeded" <=> refunds[r].refunded_at # NULL

\* C4 witness: a Refund was created not yet succeeded, a refund callback
\* made it succeeded with refunded_at set, and a later callback for it that
\* reports another status has been received.
RefundTimestampCouplingWitness ==
    \E r \in DOMAIN refunds :
        /\ refunds[r].status = "succeeded"
        /\ refunds[r].refunded_at # NULL
        /\ \E c1, c2 \in DOMAIN callbacks :
              /\ callbacks[c1].status = "processed"
              /\ callbacks[c1].payload.outcome = "refund_succeeded"
              /\ callbacks[c1].payload.provider_refund_id
                    = refunds[r].provider_refund_id
              /\ callbacks[c2].payload.outcome # "refund_succeeded"
              /\ callbacks[c2].payload.provider_refund_id
                    = refunds[r].provider_refund_id

(* ------------------------------------------------- retries without re-queue *)

\* How far the clock runs while deliveries are retried.
MaxRetryTime == 4

\* The clock advances while the workers sleep and retry.
TickRetry ==
    /\ now < MaxRetryTime
    /\ now' = now + 1
    /\ UNCHANGED <<payments, callbacks, deliveries, refunds, cp, cb, cx, rf,
                   wk, hist>>

\* The provider reports once that S1's payment failed; two worker processes
\* deliver, the merchant endpoint answers 500 or not at all, and nothing
\* re-queues the delivery.
NextRetry ==
    \/ TickRetry
    \/ \E ev \in {e \in ReplayEvents : e.outcome = "failed"} :
          /\ callbacks = << >>
          /\ _upsert_callback("cb1", ev)
    \/ _process_payment_callback("cb1")
    \/ process_payment_callback_commit("cb1")
    \/ \E w \in WorkerProcesses : process_pending_deliveries(w)
    \/ \E w \in WorkerProcesses : deliver_webhook(w)
    \/ \E w \in WorkerProcesses, http \in {NULL, Some(500)} :
          deliver_webhook_fails(w, http)

SpecRetry == InitWorker /\ [][NextRetry]_vars

\* Worker w issues a POST in this step: deliver_webhook has marked the row and
\* goes on to http_client.post.
Posts(w, d) ==
    /\ wk[w].pc = "deliver"
    /\ wk'[w].pc = "post"
    /\ Head(wk[w].batch).id = d

\* C11: a delivery whose every attempt fails and that is never re-queued is
\* POSTed exactly max_retries times: every POST raises the stored
\* attempt_count by one, and the row ends dead with attempt_count =
\* max_retries, next_attempt_at null and a last_error.
BoundedRetries ==
    [][\A d \in DOMAIN deliveries :
          /\ \A w \in WorkerProcesses :
                Posts(w, d) =>
                    deliveries'[d].attempt_count
                        = deliveries[d].attempt_count + 1
          /\ deliveries'[d].status = "dead" =>
                /\ deliveries'[d].attempt_count = worker_max_retries
                /\ deliveries'[d].next_attempt_at = NULL
                /\ deliveries'[d].last_error # NULL]_vars

(* ---------------------------------------------------- claims on retries *)

\* Worker w records the result of its POST for delivery d in this step.
Records(w, d) ==
    /\ wk[w].pc = "post"
    /\ wk'[w].pc # "post"
    /\ Head(wk[w].batch).id = d

\* C12: after a failed attempt that leaves the row in status failed,
\* next_attempt_at - last_attempt_at lies in [2^k, 1.2 * 2^k] seconds, k the
\* row's attempt_count after the attempt, whatever the latency of the POST.
RetrySchedule ==
    [][\A d \in DOMAIN deliveries : \A w \in WorkerProcesses :
          (Records(w, d) /\ deliveries'[d].status = "failed") =>
              /\ deliveries'[d].next_attempt_at # NULL
              /\ deliveries'[d].last_attempt_at # NULL
              /\ LET k == deliveries'[d].attempt_count
                     diff == Val(deliveries'[d].next_attempt_at)
                               - Val(deliveries'[d].last_attempt_at)
                 IN /\ Pow2(k) <= diff
                    /\ 5 * diff <= 6 * Pow2(k)]_vars

\* C13: in every reachable state a WebhookDelivery has status succeeded if
\* and only if delivered_at is not null, also when a re-queue or another
\* worker's attempt interleaves with a delivery in flight.
DeliveryTimestampCoupling ==
    \A d \in DOMAIN deliveries :
        deliveries[d].status = "succeeded" <=> deliveries[d].delivered_at # NULL

\* Callbacks re-queue the delivery while the worker retries it; the
\* merchant endpoint answers 2xx, 500 or not at all.
NextRequeue ==
    \/ TickRetry
    \/ \E ev \in {e \in ReplayEvents : e.outcome = "failed"} :
          SameEventAsBefore(ev) /\ _upsert_callback("cb1", ev)
    \/ _process_payment_callback("cb1")
    \/ process_payment_callback_commit("cb1")
    \/ \E w \in Workers : process_pending_deliveries(w)
    \/ \E w \in Workers : deliver_webhook(w)
    \/ \E w \in Workers : deliver_webhook_2xx(w)
    \/ \E w \in Workers, http \in {NULL, Some(500)} :
          deliver_webhook_fails(w, http)

SpecRequeue == InitWorker /\ [][NextRequeue]_vars

\* C14: a WebhookDelivery in status dead has attempt_count >= max_retries,
\* also when a callback re-queues the row (attempt_count 0) while a worker
\* holds it mid-attempt and then records the failure.
DeadLetter ==
    \A d \in DOMAIN deliveries :
        deliveries[d].status = "dead" =>
            deliveries[d].attempt_count >= worker_max_retries

\* C15: once a WebhookDelivery is dead its status never changes and no worker
\* POSTs it again, whatever polls and callbacks follow.
DeadIsTerminal ==
    [][\A d \in DOMAIN deliveries :
          deliveries[d].status = "dead" =>
              /\ deliveries'[d].status = "dead"
              /\ \A w \in WorkerProcesses : ~Posts(w, d)]_vars

(* -------------------------------------------------- claims on delivery keys *)

\* C16: the event_id of a payment delivery is "{payment_id}_{status}", there
\* is at most one WebhookDelivery per (app_id, event_id), and repeated
\* callbacks for one payment and status never add a second row.
DeliveryKeyStability ==
    /\ \A d \in DOMAIN deliveries :
          /\ deliveries[d].payment_id # NULL
          /\ \E s \in TerminalPayment :
                /\ deliveries[d].event_id
                     = <<"payment", Val(deliveries[d].payment_id), s>>
                /\ deliveries[d].event_type = <<"payment", s>>
    /\ \A d1, d2 \in DOMAIN deliveries :
          (/\ deliveries[d1].app_id = deliveries[d2].app_id
           /\ deliveries[d1].event_id = deliveries[d2].event_id) => d1 = d2

\* Two callbacks that report the same status of the same payment have been
\* processed, and the payment's delivery for that status is stored.
DeliveryKeyStabilityWitness ==
    \E c1, c2 \in DOMAIN callbacks : \E d \in DOMAIN deliveries :
        /\ c1 # c2
        /\ callbacks[c1].status = "processed"
        /\ callbacks[c2].status = "processed"
        /\ callbacks[c1].payment_id # NULL
        /\ callbacks[c1].payment_id = callbacks[c2].payment_id
        /\ _map_outcome_to_status(callbacks[c1].payload.outcome)
             = _map_outcome_to_status(callbacks[c2].payload.outcome)
        /\ deliveries[d].payment_id = callbacks[c1].payment_id
        /\ _map_outcome_to_status(callbacks[c1].payload.outcome)
             = Some(deliveries[d].event_id[3])

(* ---------------------------------------------------- claims on app scoping *)

\* NotFoundException rendered by base_api_exception_handler: status 404 with
\* the code and details of the raise.
NotFound(code, details) ==
    [status_code |-> 404, code |-> code, data |-> details,
     payment |-> NoPayment]

\* Mutant: the lookup by id does not filter on the app.
get_payment_by_id_unscoped(rows, app, payment_id) ==
    IF payment_id \in DOMAIN rows
    THEN [status_code |-> 200, code |-> 0, data |-> <<"payment_id", payment_id>>,
          payment |-> rows[payment_id]]
    ELSE NotFound(4041, <<"payment_id", payment_id>>)

\* GET /v1/payments/{payment_id} on the table rows: the response.
get_payment_by_id_response(rows, app, payment_id) ==
    LET found == {p \in DOMAIN rows :
                     p = payment_id /\ rows[p].app_id = app} IN
    IF found = {}
    THEN NotFound(4041, <<"payment_id", payment_id>>)
    ELSE [status_code |-> 200, code |-> 0,
          data |-> <<"payment_id", payment_id>>,
          payment |-> rows[payment_id]]

\* GET /v1/payments/by-merchant-order/{merchant_order_no} on the table rows.
get_payment_by_merchant_order_no(rows, app, merchant_order_no) ==
    LET found == {p \in DOMAIN rows :
                     /\ rows[p].app_id = app
                     /\ rows[p].merchant_order_no = merchant_order_no} IN
    IF found = {}
    THEN NotFound(4042, <<"merchant_order_no", merchant_order_no>>)
    ELSE [status_code |-> 200, code |-> 0,
          data |-> <<"merchant_order_no", merchant_order_no>>,
          payment |-> rows[CHOOSE p \in found : TRUE]]

\* The table payments without the rows of other apps than a.
PaymentsOf(a) ==
    [p \in {q \in DOMAIN payments : payments[q].app_id = a} |-> payments[p]]

\* Ids and order numbers a client may ask for: the stored ones and one that
\* no row has.
QueriedIds == DOMAIN payments \cup {0}

QueriedOrderNos ==
    {payments[p].merchant_order_no : p \in DOMAIN payments} \cup {"ord-0"}

\* C17: for an id or order number of another app's Payment both queries
\* answer with exactly the NotFound they give when no such row exists: the
\* answers to app a are those on the table without the other apps' rows.
AppScoping ==
    \A a \in Apps :
        /\ \A id \in QueriedIds :
              /\ get_payment_by_id_response(payments, a, id)
                   = get_payment_by_id_response(PaymentsOf(a), a, id)
              /\ (id \in DOMAIN payments /\ payments[id].app_id # a) =>
                    get_payment_by_id_response(payments, a, id)
                      = NotFound(4041, <<"payment_id", id>>)
        /\ \A o \in QueriedOrderNos :
              get_payment_by_merchant_order_no(payments, a, o)
                = get_payment_by_merchant_order_no(PaymentsOf(a), a, o)

\* Apps a1 and a2 both hold a Payment for order number ord-1, and a1 asks for
\* a2's.
AppScopingWitness ==
    \E p1, p2 \in DOMAIN payments :
        /\ payments[p1].app_id = "a1"
        /\ payments[p2].app_id = "a2"
        /\ payments[p1].merchant_order_no = payments[p2].merchant_order_no
        /\ get_payment_by_id_response(payments, "a1", p2).status_code = 404
        /\ get_payment_by_id_response(payments, "a1", p1).status_code = 200

(* ------------------------------------------- claims on refund validation *)

\* S1's order paid, and a second order of the same app still pending.
InitRefundCheck ==
    /\ InitIdle
    /\ payments =
         (1 :> [NewPayment(ReqOrd1) EXCEPT
                   !.provider_txn_id = Some("pi_abc"),
                   !.status = "succeeded", !.paid_at = Some(1)])
         @@ (2 :> [NewPayment([ReqOrd1 EXCEPT !.merchant_order_no = "ord-2"])
                      EXCEPT !.provider_txn_id = Some("pi_def")])

\* Refunds of either payment are requested, in full, for 1 or for 3; stripe
\* creates the refund or the adapter raises.
NextRefundCheck ==
    \/ \E h \in RefundHandlers, p \in {1, 2}, amount \in {NULL, Some(1), Some(3)} :
          create_refund_check(h, "a1", p, amount)
    \/ \E h \in RefundHandlers, st \in StripeRefundStatuses :
          create_refund_provider_ok(h, st)
    \/ \E h \in RefundHandlers : create_refund_provider_raises(h)

SpecRefundCheck == InitRefundCheck /\ [][NextRefundCheck]_vars

\* The refunds of payment p that count against its amount, as stored.
LiveRefunds(p) ==
    SumAmounts({r \in DOMAIN refunds :
                   /\ refunds[r].payment_id = Some(p)
                   /\ refunds[r].status \in {"pending", "succeeded"}})

\* The codes of create_refund's BadRequestException for a payment that has
\* not succeeded, an amount above the payment's, and a cumulative excess.
RefundBadRequests == {4001, 4002, 4003}

\* C18: create_refund goes on to the provider only for a succeeded payment
\* and an amount that fits under payment.amount alone and together with the
\* refunds stored as pending or succeeded; a request that fails one of these
\* ends with BadRequest, calls no provider and inserts no Refund row.
RefundValidation ==
    [][/\ \A h \in RefundHandlers :
             /\ (rf[h].pc = "idle" /\ rf'[h].pc = "provider") =>
                   LET p == Val(rf'[h].pay_id)
                       amount == rf'[h].refund_amount
                   IN /\ payments[p].status = "succeeded"
                      /\ amount <= payments[p].amount
                      /\ LiveRefunds(p) + amount <= payments[p].amount
             /\ (rf'[h] # rf[h] /\ rf'[h].error \in RefundBadRequests) =>
                   /\ rf[h].pc = "idle"
                   /\ rf'[h].pc = "idle"
                   /\ refunds' = refunds
       /\ refunds' # refunds =>
             \E h \in RefundHandlers :
                 /\ rf[h].pc = "provider"
                 /\ rf'[h].pc = "idle"
                 /\ DOMAIN refunds' \ DOMAIN refunds # {}
                 /\ \A r \in DOMAIN refunds' \ DOMAIN refunds :
                       /\ refunds'[r].payment_id = rf[h].pay_id
                       /\ refunds'[r].refund_amount = rf[h].refund_amount]_vars

\* A refund of 1 of the payment of 2 is stored; a full refund was then
\* rejected for the cumulative excess, one of 3 for exceeding the payment,
\* and no further row was inserted.
RefundValidationWitness ==
    /\ LiveRefunds(1) = 1
    /\ Cardinality(DOMAIN refunds) = 1
    /\ rf["rf1"].error = 4003
    /\ rf["rf2"].error = 4002

(* ------------------------------------------------ claims on expired events *)

\* Handler h commits the callback it processed for payment p in this step.
Commits(h, p) ==
    /\ cb[h].pc = "commit"
    /\ cb'[h].pc = "idle"
    /\ cb[h].pay_id = Some(p)
    /\ cb[h].ref_id = NULL

\* C19: a callback with outcome expired on a pending Payment sets it to
\* canceled with paid_at null and enqueues a delivery with event_type
\* payment.canceled and event_id "{payment_id}_canceled".
ExpiredIsCanceled ==
    [][\A h \in CallbackHandlers : \A p \in DOMAIN payments :
          (/\ Commits(h, p)
           /\ cb[h].event.outcome = "expired"
           /\ payments[p].status = "pending") =>
              /\ payments'[p].status = "canceled"
              /\ payments'[p].paid_at = NULL
              /\ \E d \in DOMAIN deliveries' :
                    /\ deliveries'[d].app_id = payments[p].app_id
                    /\ deliveries'[d].payment_id = Some(p)
                    /\ deliveries'[d].event_id = <<"payment", p, "canceled">>
                    /\ deliveries'[d].event_type = <<"payment", "canceled">>
                    /\ deliveries'[d].status = "pending"]_vars

\* An expired callback has been processed for a Payment that is canceled, and
\* the delivery payment.canceled is stored.
ExpiredIsCanceledWitness ==
    \E c \in DOMAIN callbacks : \E d \in DOMAIN deliveries :
        /\ callbacks[c].payload.outcome = "expired"
        /\ callbacks[c].status = "processed"
        /\ callbacks[c].payment_id # NULL
        /\ payments[Val(callbacks[c].payment_id)].status = "canceled"
        /\ deliveries[d].payment_id = callbacks[c].payment_id
        /\ deliveries[d].event_type = <<"payment", "canceled">>
        /\ Cardinality(DOMAIN callbacks) = 1

(* -------------------------------------------------- claims on cancellation *)

\* C20: a cancel request on a succeeded or failed Payment is refused, and
\* one on a canceled Payment answered with success, without calling the
\* provider or changing anything; when the adapter raises or reports
\* success = false the Payment keeps its status, pending as the handler read
\* it.
CancelFailure ==
    [][\A h \in CancelHandlers :
          /\ (cx[h].pc = "idle" /\ cx'[h].pc = "provider") =>
                payments[Val(cx'[h].pay_id)].status \notin TerminalPayment
          /\ (cx'[h] # cx[h] /\ cx[h].pc = "idle" /\ cx'[h].pc = "idle"
                /\ cx'[h].error = 0) =>
                /\ payments' = payments
                /\ payments[Val(cx'[h].pay_id)].status = "canceled"
          /\ (cx'[h] # cx[h] /\ cx'[h].error = 4000) =>
                /\ cx[h].pc = "idle"
                /\ payments' = payments
                /\ payments[Val(cx'[h].pay_id)].status
                     \in {"succeeded", "failed"}
          /\ (cx[h].pc = "provider" /\ cx'[h].error \in {5021, 5022}) =>
                /\ payments' = payments
                /\ cx[h].pay_loaded.status = "pending"]_vars

\* The adapter reported success = false for the cancellation of a Payment,
\* which is still pending.
CancelFailureWitness ==
    \E h \in CancelHandlers :
        /\ cx[h].error = 5022
        /\ cx[h].pay_id # NULL
        /\ payments[Val(cx[h].pay_id)].status = "pending"

(* ------------------------------------------------- claims on the inbox *)

\* Handler h's transaction for a payment callback fails at its commit in this
\* step: a check constraint rejects the Payment UPDATE.
CommitFails(h) ==
    /\ cb[h].pc = "commit"
    /\ cb'[h].pc = "idle"
    /\ cb[h].ref_id = NULL
    /\ ~ PaymentRowOk(cb[h].pay_mem)

\* C21: when the processing of a new callback fails after the inbox insert,
\* the Payment and WebhookDelivery changes are rolled back while the Callback
\* row of (provider, provider_event_id) stays stored with status processing.
CrashResume ==
    [][\A h \in CallbackHandlers :
          (CommitFails(h) /\ cb[h].cb_new) =>
              /\ payments' = payments
              /\ deliveries' = deliveries
              /\ \E c \in DOMAIN callbacks' :
                    /\ callbacks'[c].provider = cb[h].event.provider
                    /\ callbacks'[c].provider_event_id
                         = cb[h].event.provider_event_id
                    /\ callbacks'[c].status = "processing"]_vars

(* ------------------------------------- claims on signature verification *)

\* POST /callbacks/stripe: parse_and_verify_callback raises ValueError when
\* the signature does not verify, the router answers 500 and nothing is
\* written; otherwise process_callback runs on the event.
stripe_callback(h, ev, signature_ok) ==
    IF signature_ok
    THEN _upsert_callback(h, [ev EXCEPT !.provider = "stripe"])
    ELSE /\ cb[h].pc = "idle"
         /\ UNCHANGED vars

\* outcome_map of AlipayAdapter.parse_and_verify_callback and its default.
AlipayOutcomes == {"succeeded", "canceled", "unknown"}

\* POST /callbacks/alipay: parse_and_verify_callback decodes the form and
\* never checks the sign field; process_callback runs on every request.
alipay_callback(h, ev, signature_ok) ==
    _upsert_callback(h, [ev EXCEPT !.provider = "alipay"])

\* Requests to the alipay endpoint: notify_id, out_trade_no of S1's order or
\* of none, trade_no and trade_status as the sender chose them.
AlipayEvents ==
    {[provider |-> "alipay", provider_event_id |-> e, provider_txn_id |-> NULL,
      merchant_order_no |-> Some(o), outcome |-> out,
      provider_refund_id |-> NULL] :
        e \in EventIds, o \in {"ord-1", "ord-0"}, out \in AlipayOutcomes}

\* S1's order is pending; every callback request that arrives carries a
\* signature that does not verify.
NextUnverified ==
    \/ \E h \in CallbackHandlers, ev \in PaymentEvents :
          stripe_callback(h, ev, FALSE)
    \/ \E h \in CallbackHandlers, ev \in AlipayEvents :
          SameEventAsBefore(ev) /\ alipay_callback(h, ev, FALSE)
    \/ \E h \in CallbackHandlers : process_callback_not_found(h)
    \/ \E h \in CallbackHandlers : _process_payment_callback(h)
    \/ \E h \in CallbackHandlers : process_payment_callback_commit(h)

SpecUnverified == InitWorker /\ [][NextUnverified]_vars

\* C22: a callback request whose signature verification fails never creates
\* a Callback row, never changes a Payment and never enqueues a
\* WebhookDelivery, on any provider endpoint.
UnverifiedLeavesNoTrace ==
    /\ callbacks = << >>
    /\ deliveries = << >>
    /\ \A p \in DOMAIN payments : payments[p].status = "pending"

(* --------------------------------------------------- claims on scale-out *)

\* Worker w has marked delivery d and is POSTing it as attempt number n.
Posting(w, d, n) ==
    /\ wk[w].pc = "post"
    /\ Head(wk[w].batch).id = d
    /\ Head(wk[w].batch).row.attempt_count = n

\* C23: with several workers on one database a WebhookDelivery is taken for
\* a given attempt by one worker only: no two workers POST the same row for
\* the same attempt_count, and a worker's POST is the attempt the stored
\* attempt_count counts.
SingleTaker ==
    \A d \in DOMAIN deliveries : \A w1, w2 \in WorkerProcesses :
        \A n \in 1..worker_max_retries :
            /\ (Posting(w1, d, n) /\ Posting(w2, d, n)) => w1 = w2
            /\ Posting(w1, d, n) => deliveries[d].attempt_count = n

(* ----------------------------------------------------- claims on fan-out *)

\* C24: a step of process_callback that moves a Payment with a resolvable
\* notify_url to succeeded, failed or canceled commits, in the same step, a
\* WebhookDelivery with event_id "{payment_id}_{status}" and the triggering
\* Callback in status processed.
AtomicFanOut ==
    [][\A p \in DOMAIN payments :
          (/\ CallbackStep
           /\ payments'[p].status # payments[p].status
           /\ payments'[p].status \in TerminalPayment
           /\ ResolveNotifyUrl(payments'[p], "/callback/payment") # NULL) =>
              \E h \in CallbackHandlers :
                  /\ cb[h].pc = "commit"
                  /\ cb'[h].pc = "idle"
                  /\ cb[h].pay_id = Some(p)
                  /\ \E d \in DOMAIN deliveries' :
                        /\ deliveries'[d].app_id = payments[p].app_id
                        /\ deliveries'[d].event_id
                             = <<"payment", p, payments'[p].status>>
                  /\ \E c \in DOMAIN callbacks' :
                        /\ callbacks'[c].payload = cb[h].event
                        /\ callbacks'[c].status = "processed"
                        /\ callbacks'[c].payment_id = Some(p)]_vars

\* A callback has moved a Payment to a terminal status: its Callback is
\* processed, listed as having changed the status, and the delivery for that
\* status is stored.
AtomicFanOutWitness ==
    \E c \in DOMAIN callbacks : \E d \in DOMAIN deliveries :
        /\ <<callbacks[c].provider, callbacks[c].provider_event_id>> \in hist
        /\ callbacks[c].status = "processed"
        /\ callbacks[c].payment_id # NULL
        /\ payments[Val(callbacks[c].payment_id)].status \in TerminalPayment
        /\ deliveries[d].event_id =
             <<"payment", Val(callbacks[c].payment_id),
               payments[Val(callbacks[c].payment_id)].status>>

(* ----------------------------------------- claims on cancel and callbacks *)

\* Cancel handler h ends its request for payment p in this step, after the
\* adapter call.
CancelWrites(h, p) ==
    /\ cx[h].pc = "provider"
    /\ cx'[h].pc = "idle"
    /\ cx[h].pay_id = Some(p)

\* C25: when cancel has read a Payment as pending and a callback commits
\* succeeded or failed for it before cancel writes, cancel does not overwrite
\* the committed terminal status with canceled.
CancelKeepsTerminal ==
    [][\A h \in CancelHandlers : \A p \in DOMAIN payments :
          (/\ CancelWrites(h, p)
           /\ cx[h].pay_loaded.status = "pending"
           /\ payments[p].status \in {"succeeded", "failed"}) =>
              payments'[p].status = payments[p].status]_vars

(* ------------------------------------------------ claims on worker restarts *)

\* The worker process stops while the POST of a row's first attempt is in
\* flight, after deliver_webhook committed status processing, and is started
\* again: main() builds a new WebhookDeliveryWorker, which holds no batch.
worker_restarts(w) ==
    /\ wk[w].pc = "post"
    /\ Head(wk[w].batch).row.attempt_count = 1
    /\ wk' = [wk EXCEPT ![w] = WkIdle]
    /\ UNCHANGED <<now, payments, callbacks, deliveries, refunds, cp, cb, cx,
                   rf, hist>>

\* Each event arrives once; the merchant endpoint answers every POST with
\* 2xx; the worker may stop during a first attempt and is restarted.
NextRestart ==
    \/ Tick
    \/ \E ev \in LiveEvents :
          /\ \A c \in DOMAIN callbacks :
                callbacks[c].provider_event_id # ev.provider_event_id
          /\ _upsert_callback("cb1", ev)
    \/ _process_payment_callback("cb1")
    \/ process_payment_callback_commit("cb1")
    \/ \E w \in Workers : process_pending_deliveries(w)
    \/ \E w \in Workers : deliver_webhook(w)
    \/ \E w \in Workers : deliver_webhook_2xx(w)
    \/ \E w \in Workers : worker_restarts(w)

\* After a restart the worker loop runs as before.
SpecRestart == InitWorker /\ [][NextRestart]_vars /\ WorkerFairness

\* C26: a WebhookDelivery left in status processing by a worker that stopped
\* before recording the outcome is eventually selected again by the running
\* worker and, the merchant answering 2xx, reaches succeeded.
NoStuckProcessing ==
    \A d \in DeliveryIds :
        (/\ d \in DOMAIN deliveries
         /\ deliveries[d].status = "processing"
         /\ \A w \in Workers : wk[w].pc = "idle")
            ~> (d \in DOMAIN deliveries /\ deliveries[d].status = "succeeded")

(* ------------------------------------------ claims on enqueue and re-queue *)

\* C27: the payment path of process_callback creates or re-queues a
\* WebhookDelivery only when the callback moved the Payment into succeeded,
\* failed or canceled; a callback that leaves the Payment's status unchanged
\* leaves the deliveries unchanged.
EnqueueOnTransitionOnly ==
    [][\A h \in CallbackHandlers : \A p \in DOMAIN payments :
          (Commits(h, p) /\ payments'[p].status = payments[p].status) =>
              deliveries' = deliveries]_vars

\* The commit of a handler whose _create_webhook_delivery found the row d
\* for (app_id, event_id) already stored.
CommitsRequeue(h, d) ==
    /\ cb[h].pc = "commit" /\ cb'[h].pc = "idle"
    /\ cb[h].del_id = Some(d) /\ ~cb[h].del_new
    /\ deliveries' # deliveries \/ callbacks' # callbacks

\* C28: when the upsert finds a row for (app_id, event_id), the committed
\* row is the same row (id, app_id, event_id, created_at kept) with status
\* pending, attempt_count 0, next_attempt_at the time of the upsert, and
\* last_attempt_at, last_http_status, last_error and delivered_at null,
\* whatever status the row had.
RequeueSemantics ==
    [][\A h \in CallbackHandlers : \A d \in DOMAIN deliveries :
          CommitsRequeue(h, d) =>
              /\ d \in DOMAIN deliveries'
              /\ deliveries'[d].app_id = deliveries[d].app_id
              /\ deliveries'[d].event_id = deliveries[d].event_id
              /\ deliveries'[d].created_at = deliveries[d].created_at
              /\ deliveries'[d].status = "pending"
              /\ deliveries'[d].attempt_count = 0
              /\ deliveries'[d].next_attempt_at = cb[h].del_mem.next_attempt_at
              /\ deliveries'[d].last_attempt_at = NULL
              /\ deliveries'[d].last_http_status = NULL
              /\ deliveries'[d].last_error = NULL
              /\ deliveries'[d].delivered_at = NULL]_vars

\* C29: a Refund stored in status succeeded, failed or canceled keeps that
\* status in every step: neither sync_refund_status nor a refund callback
\* changes it.
TerminalRefundSticky ==
    [][\A r \in DOMAIN refunds :
          refunds[r].status \in {"succeeded", "failed", "canceled"} =>
              refunds'[r].status = refunds[r].status]_vars

\* Refund events of stripe that name refund 1 or 2 and carry the order
\* number of S1's order, or neither order number nor transaction id.
LocateEvents ==
    {[provider |-> "stripe", provider_event_id |-> e,
      provider_txn_id |-> NULL, merchant_order_no |-> no,
      outcome |-> o, provider_refund_id |-> r] :
        e \in EventIds, no \in {NULL, Some("ord-1")},
        o \in {"refund_succeeded", "refund_failed"},
        r \in {Some(1), Some(2)}}

\* Refunds of the paid order are requested one after the other while refund
\* callbacks arrive, some of which do not identify the Payment.
NextLocate ==
    \/ \E amount \in {NULL, Some(1)} : create_refund_check("rf1", "a1", 1, amount)
    \/ \E st \in {"pending", "succeeded"} : create_refund_provider_ok("rf1", st)
    \/ \E ev \in LocateEvents :
          SameEventAsBefore(ev) /\ _upsert_callback("cb1", ev)
    \/ process_callback_not_found("cb1")
    \/ process_refund_callback_not_found("cb1")
    \/ _process_refund_callback("cb1")
    \/ process_refund_callback_commit("cb1")

SpecLocate == InitRefund /\ [][NextLocate]_vars

\* A handler finishes a refund callback whose (provider, provider_refund_id)
\* matches a stored Refund, and writes the Callback row.
FinishesLocated(h) ==
    /\ cb[h].pc \in {"advance", "commit"} /\ cb'[h].pc = "idle"
    /\ IsRefundOutcome(cb[h].event.outcome)
    /\ RefundsByProviderRefundId(cb[h].event) # {}
    /\ callbacks' # callbacks

\* C30: a refund callback whose (provider, provider_refund_id) matches a
\* stored Refund is marked processed, never failed, whether or not a Payment
\* can be found from the event.
RefundLocatedByRefundId ==
    [][\A h \in CallbackHandlers :
          FinishesLocated(h) =>
              callbacks'[Val(cb[h].cb_id)].status = "processed"]_vars

(* ------------------------------------- claims on locating and backfilling *)

\* process_callback returns at lines 57-61: neither lookup of _find_payment
\* matched a Payment for the handler's payment event.
FinishesUnlocated(h) ==
    /\ cb[h].pc = "advance" /\ cb'[h].pc = "idle"
    /\ ~ IsRefundOutcome(cb[h].event.outcome)
    /\ PaymentsByOrderNo(cb[h].event) = {}
    /\ PaymentsByTxnId(cb[h].event) = {}

\* process_callback finishes for an event whose stored Callback row was
\* failed when _upsert_callback read it, and a Payment was located.
FinishesRedriven(h) ==
    /\ cb[h].pc = "commit" /\ cb'[h].pc = "idle"
    /\ cb[h].ref_id = NULL
    /\ ~ cb[h].cb_new /\ cb[h].cb_loaded.status = "failed"

\* C31: a payment callback that locates no Payment commits its Callback row
\* with status failed and changes neither a Payment nor a WebhookDelivery;
\* when the same event arrives again and the Payment is found, the Callback
\* row becomes processed.
UnlocatablePaymentCallback ==
    [][\A h \in CallbackHandlers :
          LET c == Val(cb[h].cb_id) IN
          /\ FinishesUnlocated(h) =>
                /\ c \in DOMAIN callbacks'
                /\ callbacks'[c].status = "failed"
                /\ payments' = payments
                /\ deliveries' = deliveries
          /\ FinishesRedriven(h) =>
                /\ c \in DOMAIN callbacks'
                /\ callbacks'[c].status = "processed"]_vars

(* --------------------------------------------- claims on the worker loop *)

\* The rows a worker holds as selected by its poll and not yet marked
\* processing by deliver_webhook.
SelectedRows(w) ==
    LET waiting == IF wk[w].pc = "post" THEN Tail(wk[w].batch)
                   ELSE wk[w].batch
    IN {waiting[i].row : i \in 1..Len(waiting)}

\* deliver_webhook of worker w commits processing for row d and POSTs it.
StartsPost(w, d) ==
    /\ wk[w].pc = "deliver" /\ wk'[w].pc = "post"
    /\ Head(wk[w].batch).id = d

\* C32, selection: every row a worker selected had, when selected, status
\* pending or failed, attempt_count < max_retries and next_attempt_at null
\* or not later than now.
SelectionHonoursBackoff ==
    \A w \in WorkerProcesses : \A row \in SelectedRows(w) :
        /\ row.status \in {"pending", "failed"}
        /\ row.attempt_count < worker_max_retries
        /\ row.next_attempt_at = NULL \/ Val(row.next_attempt_at) <= now

\* C32: the worker selects only due rows, never one in succeeded, dead or
\* processing, and never POSTs a row before the row's next_attempt_at.
PostHonoursBackoff ==
    [][/\ SelectionHonoursBackoff'
       /\ \A w \in WorkerProcesses : \A d \in DOMAIN deliveries :
             StartsPost(w, d) =>
                 \/ deliveries[d].next_attempt_at = NULL
                 \/ Val(deliveries[d].next_attempt_at) <= now]_vars

\* Worker w records the outcome of its attempt on row d: the commit of
\* deliver_webhook after the POST, or of schedule_retry.
EndsAttempt(w, d) ==
    /\ wk[w].pc = "post" /\ wk'[w] = AfterDelivery(w)
    /\ Head(wk[w].batch).id = d

\* C33: every attempt that deliver_webhook started ends with the stored row
\* in succeeded, failed or dead; when it ends in failed or dead the row
\* carries a last_error, and schedule_retry's next_attempt_at (null for dead,
\* later than now for failed); the worker goes on with the rest of its batch.
AttemptsAreRecorded ==
    [][\A w \in WorkerProcesses : \A d \in DOMAIN deliveries :
          EndsAttempt(w, d) =>
              /\ deliveries'[d].status \in {"succeeded", "failed", "dead"}
              /\ deliveries'[d].status = "failed" =>
                    /\ deliveries'[d].last_error # NULL
                    /\ deliveries'[d].next_attempt_at # NULL
                    /\ Val(deliveries'[d].next_attempt_at) > now
              /\ deliveries'[d].status = "dead" =>
                    /\ deliveries'[d].last_error # NULL
                    /\ deliveries'[d].next_attempt_at = NULL]_vars

\* C34: when a handler commits a payment callback that carries a
\* provider_txn_id for a Payment whose provider_txn_id is null, the Payment
\* gets the event's provider_txn_id, whatever the outcome; a provider_txn_id
\* that is set is not changed.
TxnIdBackfill ==
    [][\A h \in CallbackHandlers : \A p \in DOMAIN payments :
          (Commits(h, p) /\ cb[h].event.provider_txn_id # NULL) =>
              IF payments[p].provider_txn_id = NULL
              THEN payments'[p].provider_txn_id = cb[h].event.provider_txn_id
              ELSE payments'[p].provider_txn_id = payments[p].provider_txn_id]_vars

(* ------------------------------------------- claims on the notify address *)

\* Orders for ord-1 by either app, with no notify_url of their own, an empty
\* one, one without and one with a trailing slash.
NotifyRequests ==
    {[ReqOrd1 EXCEPT !.app = a, !.notify_url = u] :
        a \in Apps,
        u \in {NULL, Some(<< >>), Some(<<"https://m.example/cb">>),
               Some(<<"https://m.example/cb", "/">>)}}

\* One of those orders has been created and is pending at stripe.
InitNotify ==
    /\ InitIdle
    /\ \E req \in NotifyRequests :
          payments = (1 :> [NewPayment(req) EXCEPT
                              !.provider_txn_id = Some("pi_abc")])

\* Payment callbacks for the order arrive; once it is paid its owner
\* refunds it in full, and refund callbacks arrive.
NextNotify ==
    \/ Tick
    \/ \E ev \in {e \in PaymentEvents \cup RefundEvents :
                     /\ e.outcome \in {"succeeded", "failed", "pending",
                                       "refund_succeeded", "refund_failed"}
                     /\ IsRefundOutcome(e.outcome)
                            => e.provider_refund_id = Some(1)} :
          SameEventAsBefore(ev) /\ _upsert_callback("cb1", ev)
    \/ _process_payment_callback("cb1")
    \/ process_payment_callback_commit("cb1")
    \/ process_refund_callback_not_found("cb1")
    \/ _process_refund_callback("cb1")
    \/ process_refund_callback_commit("cb1")
    \/ \E a \in Apps : create_refund_check("rf1", a, 1, NULL)
    \/ create_refund_provider_ok("rf1", "pending")

SpecNotify == InitNotify /\ [][NextNotify]_vars

\* Handler h has located the Payment and prepared its commit in this step.
Prepares(h) == cb[h].pc = "advance" /\ cb'[h].pc = "commit"

\* The address _create_webhook_delivery starts from: the Payment's, or else
\* the owning App's.
NotifyBase(payment) ==
    IF ~ Empty(payment.notify_url) THEN payment.notify_url
    ELSE AppNotifyUrl(payment.app_id)

\* The path suffix of the handler's delivery.
PathSuffix(h) ==
    IF IsRefundOutcome(cb[h].event.outcome) THEN "/callback/refund"
    ELSE "/callback/payment"

\* C35 as stated: the notify_url of an inserted WebhookDelivery is the
\* Payment's notify_url, or else the App's, with the path suffix appended.
NotifyUrlAppended ==
    [][\A h \in CallbackHandlers :
          (Prepares(h) /\ cb'[h].del_new) =>
              cb'[h].del_mem.notify_url =
                  {u \o <<PathSuffix(h)>> :
                      u \in NotifyBase(payments[Val(cb'[h].pay_id)])}]_vars

\* C35: when the Payment's and the App's notify_url are both empty the
\* handler prepares no WebhookDelivery, and a callback that changes the
\* Payment or the Refund is committed with its Callback processed and the
\* deliveries unchanged; otherwise a row it inserts has status pending,
\* attempt_count 0, next_attempt_at = now, delivered_at null and notify_url
\* the Payment's or else the App's, trailing slashes removed, with
\* /callback/payment or /callback/refund appended, and is stored as prepared.
NotifyUrlResolution ==
    [][\A h \in CallbackHandlers :
          /\ Prepares(h) =>
                LET base == NotifyBase(payments[Val(cb'[h].pay_id)])
                    row == cb'[h].del_mem
                IN IF Empty(base) THEN cb'[h].del_id = NULL
                   ELSE cb'[h].del_new =>
                          /\ row.status = "pending"
                          /\ row.attempt_count = 0
                          /\ row.next_attempt_at = Some(now)
                          /\ row.delivered_at = NULL
                          /\ \A u \in base : \E n \in 0..Len(u) :
                                /\ n > 0 => u[n] # "/"
                                /\ \A i \in (n + 1)..Len(u) : u[i] = "/"
                                /\ row.notify_url =
                                     {SubSeq(u, 1, n) \o <<PathSuffix(h)>>}
          /\ (/\ cb[h].pc = "commit" /\ cb'[h].pc = "idle"
              /\ payments' # payments \/ refunds' # refunds) =>
                /\ callbacks'[Val(cb[h].cb_id)].status = "processed"
                /\ IF cb[h].del_id = NULL THEN deliveries' = deliveries
                   ELSE cb[h].del_new =>
                          deliveries' = deliveries
                                          @@ (Val(cb[h].del_id) :> cb[h].del_mem)]_vars

\* A Payment without any notify_url reached a terminal status through a
\* processed callback and no WebhookDelivery exists.
NotifyUrlResolutionWitness ==
    /\ Empty(NotifyBase(payments[1]))
    /\ payments[1].status \in TerminalPayment
    /\ \E c \in DOMAIN callbacks : callbacks[c].status = "processed"
    /\ deliveries = << >>
    /\ cb["cb1"].pc = "idle"

(* ------------------------------------------- claims on scoping of refunds *)

\* GET /v1/refunds/{refund_id} called by app: RefundService.get_refund, then
\* PaymentService.get_payment_by_id(app, refund.payment_id).
get_refund(app, refund_id) ==
    IF refund_id \notin DOMAIN refunds
    THEN NotFound(4044, <<"refund_id", refund_id>>)
    ELSE LET owner == get_payment_by_id_response(
                          payments, app, Val(refunds[refund_id].payment_id)) IN
         IF owner.status_code = 404 THEN owner
         ELSE [status_code |-> 200, code |-> 0,
               data |-> <<"refund_id", refund_id>>, payment |-> NoPayment]

\* POST /v1/refunds/{refund_id}/sync called by app: the two lookups of
\* get_refund, then RefundService.sync_refund_status.
sync_refund_status(h, app, refund_id) ==
    IF get_refund(app, refund_id).status_code = 404
    THEN /\ rf[h].pc = "idle"
         /\ rf' = [rf EXCEPT ![h] = RfRaised(get_refund(app, refund_id).code)]
         /\ UNCHANGED <<now, payments, callbacks, deliveries, refunds, cp, cb,
                        cx, wk, hist>>
    ELSE sync_refund_status_read(h, refund_id)

\* App a1 refunds its paid order; both apps sync refunds by id.
NextRefundScope ==
    \/ \E amount \in {NULL, Some(1)} : create_refund_check("rf1", "a1", 1, amount)
    \/ \E st \in StripeRefundStatuses : create_refund_provider_ok("rf1", st)
    \/ \E a \in Apps, r \in 0..MaxRefunds : sync_refund_status("rf1", a, r)
    \/ \E st \in StripeRefundStatuses : sync_refund_status_provider("rf1", st)

SpecRefundScope == InitRefund /\ [][NextRefundScope]_vars

\* C36: for a Refund whose Payment belongs to another app, GET
\* /v1/refunds/{id} answers as for a refund id that does not exist (404,
\* code 4044, details naming the refund id), and so does POST
\* /v1/refunds/{id}/sync, which leaves the refunds unchanged.
RefundAppScoping ==
    [][\A a \in Apps : \A r \in DOMAIN refunds :
          payments[Val(refunds[r].payment_id)].app_id # a =>
              /\ get_refund(a, r) = NotFound(4044, <<"refund_id", r>>)
              /\ sync_refund_status("rf1", a, r) =>
                    /\ rf'["rf1"] = RfRaised(4044)
                    /\ refunds' = refunds]_vars

(* ------------------------------------- claims on callbacks across tenants *)

\* Stripe payment events for order number ord-1, about the intent of app
\* a1's Payment (pi_abc) or of app a2's (pi_def).
TenantEvents ==
    {[provider |-> "stripe", provider_event_id |-> e,
      provider_txn_id |-> Some(t), merchant_order_no |-> Some("ord-1"),
      outcome |-> o, provider_refund_id |-> NULL] :
        e \in EventIds, t \in {"pi_abc", "pi_def"},
        o \in {"succeeded", "failed"}}

\* App a1's order ord-1 is pending at stripe; app a2 creates an order with
\* the same order number while callbacks for both arrive, those about a2's
\* intent once stripe has been asked to create it.
NextTenants ==
    \/ create_or_get_payment_select(2, [ReqOrd1 EXCEPT !.app = "a2"])
    \/ create_or_get_payment_flush(2)
    \/ create_payment_provider_ok(2, Some("pi_def"))
    \/ \E h \in CallbackHandlers, ev \in TenantEvents :
          /\ ev.provider_txn_id = Some("pi_def") =>
                cp[2].pc = "provider" \/ 2 \in DOMAIN payments
          /\ SameEventAsBefore(ev) /\ _upsert_callback(h, ev)
    \/ \E h \in CallbackHandlers : process_callback_not_found(h)
    \/ \E h \in CallbackHandlers : _process_payment_callback(h)
    \/ \E h \in CallbackHandlers : process_payment_callback_commit(h)

SpecTenants == InitWorker /\ [][NextTenants]_vars

\* The Payments a provider event belongs to: same provider and
\* provider_txn_id.
PaymentsOfEvent(ev) ==
    {p \in DOMAIN payments :
        /\ payments[p].provider = ev.provider
        /\ payments[p].provider_txn_id = ev.provider_txn_id}

\* C37: a payment callback changes no Payment other than the one its
\* provider and provider_txn_id name, and is not ended by an ambiguous
\* lookup when two apps own a Payment with its merchant_order_no.
CallbackTargeting ==
    [][\A h \in CallbackHandlers :
          /\ \A p \in DOMAIN payments :
                (cb[h].pc = "commit" /\ cb'[h].pc = "idle"
                   /\ payments'[p] # payments[p])
                    => p \in PaymentsOfEvent(cb[h].event)
          /\ (cb[h].pc = "advance" /\ cb'[h].pc = "idle"
                /\ PaymentsOfEvent(cb[h].event) # {})
                 => ~ _find_payment(cb[h].event).many]_vars

(* ------------------------------------------ claims on refund deliveries *)

\* Stripe refund events about refund r: when r is stored they carry the
\* transaction id of the refunded Payment and its order number or none; a
\* refund stripe knows and the gateway does not (r = 0) is reported for any
\* Payment.
OwnedRefundEvents(r) ==
    {[provider |-> "stripe", provider_event_id |-> e,
      provider_txn_id |-> payments[p].provider_txn_id,
      merchant_order_no |-> no, outcome |-> o,
      provider_refund_id |-> Some(r)] :
        e \in EventIds,
        p \in IF r \in DOMAIN refunds THEN refunds[r].payment_id
              ELSE DOMAIN payments,
        no \in {NULL},
        o \in {"refund_succeeded", "refund_failed"}}
    \cup
    {[provider |-> "stripe", provider_event_id |-> e,
      provider_txn_id |-> payments[p].provider_txn_id,
      merchant_order_no |-> Some(payments[p].merchant_order_no),
      outcome |-> o, provider_refund_id |-> Some(r)] :
        e \in EventIds,
        p \in IF r \in DOMAIN refunds THEN refunds[r].payment_id
              ELSE DOMAIN payments,
        o \in {"refund_succeeded", "refund_failed"}}

\* App a1's order ord-1 and app a2's order ord-2 have been paid.
InitOwnership ==
    /\ InitIdle
    /\ payments =
         (1 :> [NewPayment(ReqOrd1) EXCEPT
                  !.provider_txn_id = Some("pi_abc"),
                  !.status = "succeeded", !.paid_at = Some(1)])
         @@
         (2 :> [NewPayment([ReqOrd1 EXCEPT
                              !.app = "a2", !.merchant_order_no = "ord-2",
                              !.notify_url = Some(<<"https://m2.example/cb">>)])
                EXCEPT !.provider_txn_id = Some("pi_def"),
                       !.status = "succeeded", !.paid_at = Some(1)])

\* Each app refunds its order in full; refund callbacks arrive.
NextOwnership ==
    \/ create_refund_check("rf1", "a1", 1, NULL)
    \/ create_refund_check("rf1", "a2", 2, NULL)
    \/ create_refund_provider_ok("rf1", "pending")
    \/ \E r \in {0} \cup DOMAIN refunds : \E ev \in OwnedRefundEvents(r) :
          SameEventAsBefore(ev) /\ _upsert_callback("cb1", ev)
    \/ process_refund_callback_not_found("cb1")
    \/ _process_refund_callback("cb1")
    \/ process_refund_callback_commit("cb1")

SpecOwnership == InitOwnership /\ [][NextOwnership]_vars

UnmappedOutcomeSwallowed ==
    [][\A h \in CallbackHandlers : \A p \in DOMAIN payments :
          (/\ Commits(h, p)
           /\ cb[h].event.outcome \notin
                 {"succeeded", "failed", "canceled", "expired", "pending"}) =>
              /\ payments' = payments
              /\ deliveries' = deliveries
              /\ callbacks'[Val(cb[h].cb_id)].status = "processed"
              /\ callbacks'[Val(cb[h].cb_id)].payment_id = Some(p)]_vars

\* A completed event has been processed for the pending Payment and nothing
\* was enqueued.
UnmappedOutcomeSwallowedWitness ==
    /\ 1 \in DOMAIN payments /\ payments[1].status = "pending"
    /\ deliveries = << >>
    /\ \E c \in DOMAIN callbacks :
          /\ callbacks[c].payload.outcome = "completed"
          /\ callbacks[c].status = "processed"
          /\ callbacks[c].payment_id = Some(1)

(* ------------------------------------------ claims on provider failures *)

\* C40: when the adapter's create_payment raises, the handler's Payment is
\* not committed and no row with its (app_id, merchant_order_no) is stored;
\* a create that finds no row of its key inserts one (is_new) and only such
\* a create reaches the adapter; a create that returns is_new = false has
\* not called it.
ProviderFailureLeavesNoPayment ==
    [][\A h \in Callers :
          /\ (/\ cp[h].pc = "provider" /\ cp'[h].pc = "done"
              /\ cp'[h].error = "ProviderError") =>
                /\ payments' = payments
                /\ \A p \in DOMAIN payments' :
                      ~ uq_payments_app_merchant_order_no(
                            payments'[p], NewPayment(cp[h].req))
          /\ (/\ cp[h].pc = "idle" /\ cp'[h].pc # "idle"
              /\ RowsOfKey(cp'[h].req) = {}) =>
                cp'[h].pc = "flush"
          /\ cp'[h].pc = "provider" => cp'[h].is_new
          /\ (cp'[h].pc = "done" /\ ~ cp'[h].is_new) =>
                cp[h].pc # "provider"]_vars

\* After one caller's create failed at the provider, another caller's create
\* of the same order was treated as new and is stored.
ProviderFailureLeavesNoPaymentWitness ==
    \E h1, h2 \in Callers :
        /\ h1 # h2
        /\ cp[h1].pc = "done" /\ cp[h1].error = "ProviderError"
        /\ cp[h2].pc = "done" /\ cp[h2].is_new
        /\ uq_payments_app_merchant_order_no(
               NewPayment(cp[h1].req), NewPayment(cp[h2].req))
        /\ h2 \in DOMAIN payments

====
